---- MODULE Spec2Model ----
(***************************************************************************)
(* Personal cloud data platform: ingestion (whatsapp_bronze validator,     *)
(* photo_processor), transformation (whatsapp_silver Glue job) and the     *)
(* pure helpers they use.  The Python handlers are described by            *)
(* docs/LAMBDAS.md, docs/GLUE.md and docs/LEARNING.md; the definitions     *)
(* below follow those descriptions step by step.                           *)
(***************************************************************************)
EXTENDS Integers, Sequences, FiniteSets, TLC

VARIABLES
    now,        \* current UTC time, counted in months since January of BaseYear
    landing,    \* raw-whatsapp-uploads/<name>: name -> [content, lastModified]
    events,     \* name -> delivery attempts left for the S3 ObjectCreated event
    bronze,     \* bronze/whatsapp/year=Y/month=MM/<name>: key -> content
    vlog,       \* outcome of the last whatsapp_bronze invocation
    copied,     \* name -> bronze keys the current landing object was copied to
    silver,     \* silver/whatsapp/date=<d>/: date -> sequence of rows
    catalog,    \* Glue catalog entry of whatsapp_messages (set of partitions)
    job,        \* outcome of the last whatsapp_silver run
    hist,       \* the last completed whatsapp_silver run
    lastfail,   \* the failed whatsapp_silver run since then, if any
    budget,     \* remaining uploads, duplicate deliveries, SDK errors, months and job runs
    arg,        \* input of the pure helper under study
    res,        \* its result
    rawPhotos,  \* raw-photos/<name>: name -> image
    pevents,    \* name -> delivery attempts left for the ObjectCreated event
    objects,    \* photos/originals/ and photos/thumbnails/: key -> object
    table,      \* DynamoDB PhotoMetadata: photo_id -> item
    uuids,      \* number of UUIDs generated so far
    plog,       \* per name: invocations completed and failed, whether the last one
                \* failed at put_item or was the retry after that, storage keys written
    pbudget,    \* remaining photo uploads and duplicate deliveries
    qpc,        \* whatsapp_api: position of the handler in run_query
    polls,      \* get_query_execution calls made for the current query
    qstate,     \* state returned by the last get_query_execution call
    raised,     \* exception raised by the polling loop
    qrows,      \* rows collected from get_query_results
    history,    \* React router: the history stack, the current location last
    running,    \* ingestion invocations that run at the same time, step by step
    photosPage, \* PhotosPage: its state hooks and the fetches in flight
    whatsAppPage, \* WhatsAppPage: its state hooks and the fetches in flight
    fetches     \* remaining fetches of the two pages

vars == <<now, landing, events, bronze, vlog, copied, silver, catalog, job, hist, lastfail, budget,
          arg, res, rawPhotos, pevents, objects, table, uuids, plog, pbudget,
          qpc, polls, qstate, raised, qrows, history, running,
          photosPage, whatsAppPage, fetches>>

photoVars == <<rawPhotos, pevents, objects, table, uuids, plog, pbudget>>

chatVars == <<now, landing, events, bronze, vlog, copied, silver, catalog, job, hist, lastfail,
              budget>>
pureVars == <<arg, res>>
apiVars == <<qpc, polls, qstate, raised, qrows>>
uiVars == <<history>>
concVars == <<running>>
pageVars == <<photosPage, whatsAppPage, fetches>>

----------------------------------------------------------------------------
(* Bounds of the model *)

MaxOps == 4             \* uploads, duplicate deliveries, SDK errors, months and job runs
MaxPhotoOps == 2        \* photo uploads and duplicate deliveries
MaxPad == 21            \* filler lines in front of the tail of a validator input
MaxTail == 2            \* free lines at the end of a validator input
MaxDim == 12            \* image widths and heights 1..MaxDim, plus SpecialDims
MaxFlash == 3           \* EXIF Flash values 0..MaxFlash, or absent
MaxValueLen == 2        \* characters in a sender, search or date parameter
MaxItems == 3           \* items in the PhotoMetadata table when it is listed
MaxLines == 5           \* lines of a chat file given to parse_chat
MaxNameParts == 3       \* pieces (dots and runs of other characters) of a file name
MaxHistory == 5         \* entries of the router's history stack
MaxPages == 3           \* pages of a query result
MaxDateField == 32      \* the first two fields of a date string: 0..MaxDateField
MaxFetches == 3         \* fetches issued by PhotosPage and WhatsAppPage
MaxPageRows == 2        \* data rows on one page of a query result

(* Program constants *)

BaseYear == 2024
MinMatches == 2         \* at least 2 matching lines
HeadLines == 20         \* of the first 20 non-empty lines
MaxAttempts == 3        \* 2 automatic retries, 3 attempts in total

None == [none |-> TRUE]

----------------------------------------------------------------------------
(* Lines of a chat export.  A line is described by what the two regular    *)
(* expressions look at: whether it is blank, whether it starts with a      *)
(* timestamp (and with which date separator), and whether the timestamp is *)
(* followed by " - <sender>: <text>".                                      *)

EmptyLine == [kind |-> "empty"]
Garbage == [kind |-> "garbage"]
MsgLine(a, b, y, ylen, sep, text) ==
    [kind |-> "msg", a |-> a, b |-> b, y |-> y, ylen |-> ylen, sep |-> sep, text |-> text]
SystemLine(a, b, y, ylen, sep) ==
    [kind |-> "system", a |-> a, b |-> b, y |-> y, ylen |-> ylen, sep |-> sep]

\* WHATSAPP_RE: ^\[?\d{1,2}[/\-.]\d{1,2}[/\-.]\d{2,4},?\s+\d{1,2}:\d{2}
WHATSAPP_RE(line) == line.kind \in {"msg", "system"}

RECURSIVE SelectSeqN(_, _)
\* the non-empty lines of a file, in order
SelectSeqN(lines, i) ==
    IF i > Len(lines) THEN <<>>
    ELSE IF lines[i].kind = "empty" THEN SelectSeqN(lines, i + 1)
         ELSE <<lines[i]>> \o SelectSeqN(lines, i + 1)

NonEmptyLines(lines) == SelectSeqN(lines, 1)

FirstN(lines, n) == SubSeq(lines, 1, IF Len(lines) < n THEN Len(lines) ELSE n)

CountMatches(lines) == Cardinality({i \in 1..Len(lines) : WHATSAPP_RE(lines[i])})

\* every line of the file is counted, not only the first 20 non-empty ones
is_whatsapp_export_all_lines(content) == CountMatches(content) >= MinMatches

\* whatsapp_bronze step 3: at least 2 of the first 20 non-empty lines match
is_whatsapp_export(content) ==
    CountMatches(FirstN(NonEmptyLines(content), HeadLines)) >= MinMatches

----------------------------------------------------------------------------
(* whatsapp_silver: date normalisation and line parsing *)

IsLeap(y) == (y % 4 = 0 /\ y % 100 # 0) \/ y % 400 = 0

DaysInMonth(y, m) ==
    IF m = 2 THEN (IF IsLeap(y) THEN 29 ELSE 28)
    ELSE IF m \in {4, 6, 9, 11} THEN 30 ELSE 31

\* strptime's %y: 00..68 -> 2000..2068, 69..99 -> 1969..1999
Year2(y) == IF y < 69 THEN 2000 + y ELSE 1900 + y

ValidDate(y, m, d) == y >= 1 /\ m \in 1..12 /\ d >= 1 /\ d <= DaysInMonth(y, m)

Iso(y, m, d) == [iso |-> TRUE, Y |-> y, M |-> m, D |-> d]
Raw(a, b, y, ylen) == [iso |-> FALSE, a |-> a, b |-> b, y |-> y, ylen |-> ylen]

\* the day-first formats are tried before the month-first ones
parse_date_iso_day_first(a, b, y, ylen) ==
    IF ylen = 2 /\ ValidDate(Year2(y), b, a) THEN Iso(Year2(y), b, a)
    ELSE IF ylen = 4 /\ ValidDate(y, b, a) THEN Iso(y, b, a)
    ELSE IF ylen = 2 /\ ValidDate(Year2(y), a, b) THEN Iso(Year2(y), a, b)
    ELSE IF ylen = 4 /\ ValidDate(y, a, b) THEN Iso(y, a, b)
    ELSE Raw(a, b, y, ylen)

\* parse_date_iso: %m/%d/%y, %m/%d/%Y, %d/%m/%y, %d/%m/%Y in that order;
\* the raw string is kept when none applies
parse_date_iso(a, b, y, ylen) ==
    IF ylen = 2 /\ ValidDate(Year2(y), a, b) THEN Iso(Year2(y), a, b)
    ELSE IF ylen = 4 /\ ValidDate(y, a, b) THEN Iso(y, a, b)
    ELSE IF ylen = 2 /\ ValidDate(Year2(y), b, a) THEN Iso(Year2(y), b, a)
    ELSE IF ylen = 4 /\ ValidDate(y, b, a) THEN Iso(y, b, a)
    ELSE Raw(a, b, y, ylen)

\* DATE_PATTERNS: the grammar with "/" between the numbers of the date, then
\* the grammar with "-" or "." between them
DATE_PATTERNS == <<{"/"}, {"-", "."}>>

\* pattern.match(line): a timestamp with the separators of the grammar,
\* followed by " - <sender>: <text>"
PatternMatches(k, line) == line.kind = "msg" /\ line.sep \in DATE_PATTERNS[k]

\* only the first grammar of the list is tried
MatchesPattern_first_only(line) == PatternMatches(1, line)

\* the line matches a grammar of DATE_PATTERNS
MatchesPattern(line) == \E k \in 1..Len(DATE_PATTERNS) : PatternMatches(k, line)

\* the grammars are tried in list order and the first match is used
first_match(line) == CHOOSE k \in 1..Len(DATE_PATTERNS) :
    PatternMatches(k, line) /\ \A j \in 1..(k - 1) : ~PatternMatches(j, line)

\* SHA-256(source_file:line_index)[:16]; the digest is modelled as the pair
\* it is computed from (distinct inputs give distinct identifiers)
message_id(source_file, line_index) == <<source_file, line_index>>

Row(source_file, line_index, line) ==
    [message_id |-> message_id(source_file, line_index),
     date |-> parse_date_iso(line.a, line.b, line.y, line.ylen),
     text |-> line.text,
     source_file |-> source_file]

RECURSIVE ParseFrom(_, _, _)
ParseFrom(content, source_file, i) ==
    IF i > Len(content) THEN <<>>
    ELSE IF MatchesPattern(content[i])
         THEN <<Row(source_file, i - 1, content[i])>> \o ParseFrom(content, source_file, i + 1)
         ELSE ParseFrom(content, source_file, i + 1)

\* parse_chat: one row per matching line, other lines are dropped
parse_chat(content, source_file) == ParseFrom(content, source_file, 1)

----------------------------------------------------------------------------
(* Storage keys *)

FileNames == <<"a.txt", "b.txt">>
NameSet == {FileNames[i] : i \in 1..Len(FileNames)}
NameIdx(n) == CHOOSE i \in 1..Len(FileNames) : FileNames[i] = n

\* year and zero-padded month of a time stamp
PartitionOf(t) == [year |-> BaseYear + ((t - 1) \div 12), month |-> ((t - 1) % 12) + 1]

\* bronze/whatsapp/year=YYYY/month=MM/<filename>
BronzeKey(year, month, name) == [year |-> year, month |-> month, name |-> name]

\* the copy is named after the partition alone
dest_key_per_partition(name, utcnow, last_modified) ==
    BronzeKey(PartitionOf(utcnow).year, PartitionOf(utcnow).month, "export.txt")

\* whatsapp_bronze step 4: the partition comes from the current UTC time
dest_key(name, utcnow, last_modified) ==
    BronzeKey(PartitionOf(utcnow).year, PartitionOf(utcnow).month, name)

\* ListObjectsV2 returns keys in lexicographic order
KeyLess(k1, k2) ==
    \/ k1.year < k2.year
    \/ k1.year = k2.year /\ k1.month < k2.month
    \/ k1.year = k2.year /\ k1.month = k2.month /\ NameIdx(k1.name) < NameIdx(k2.name)

RECURSIVE SortKeys(_)
SortKeys(S) ==
    IF S = {} THEN <<>>
    ELSE LET k == CHOOSE x \in S : \A y \in S \ {x} : KeyLess(x, y)
         IN <<k>> \o SortKeys(S \ {k})

Put(store, k, v) == (k :> v) @@ store

----------------------------------------------------------------------------
(* whatsapp_bronze: the format validator *)

\* the copy is made before the validation result is looked at
ValidatorWrites_always(store, accepted, dest, content) == Put(store, dest, content)

\* CopyObject into the bronze layer when the file is valid, nothing otherwise
ValidatorWrites(store, accepted, dest, content) ==
    IF accepted THEN Put(store, dest, content) ELSE store

\* one invocation for the ObjectCreated event of raw-whatsapp-uploads/<name>
ValidatorInvoke(name) ==
    /\ events[name] > 0
    /\ name \in DOMAIN landing
    /\ LET obj == landing[name]
           accepted == is_whatsapp_export(obj.content)
           dest == dest_key(name, now, obj.lastModified)
       IN /\ bronze' = ValidatorWrites(bronze, accepted, dest, obj.content)
          /\ vlog' = [key |-> name, decision |-> IF accepted THEN "accept" ELSE "reject",
                      status |-> 200, dest |-> IF accepted THEN dest ELSE None]
          /\ copied' = [copied EXCEPT ![name] = IF accepted THEN @ \cup {dest} ELSE @]
    /\ events' = [events EXCEPT ![name] = 0]
    /\ UNCHANGED <<now, landing, silver, catalog, job, hist, lastfail, budget>>

\* GetObject or CopyObject raises: the invocation fails before any write and
\* the event is retried until its attempts are used up
ValidatorFail(name) ==
    /\ budget > 0
    /\ events[name] > 0
    /\ name \in DOMAIN landing
    /\ events' = [events EXCEPT ![name] = @ - 1]
    /\ vlog' = [key |-> name, decision |-> "error", status |-> 500, dest |-> None]
    /\ budget' = budget - 1
    /\ UNCHANGED <<now, landing, bronze, copied, silver, catalog, job, hist, lastfail>>

----------------------------------------------------------------------------
(* Uploads, time and event delivery *)

D1 == MsgLine(1, 15, 24, 2, "/", "hi")
D1b == MsgLine(1, 15, 24, 2, "/", "there")
D2 == MsgLine(1, 16, 24, 2, "/", "yo")
D2b == MsgLine(1, 16, 24, 2, "/", "bye")

\* the text files a user uploads: a chat export of one day, a chat export
\* of another day, and a file that is not a chat export
Contents == {<<D1, Garbage, D1b>>, <<D2, D2b>>, <<D1, Garbage>>}

\* HomePage.handleUpload for a .txt file: the object lands at
\* raw-whatsapp-uploads/<name> and S3 emits one ObjectCreated event
Upload(name, content) ==
    /\ budget > 0
    /\ landing' = Put(landing, name, [content |-> content, lastModified |-> now])
    /\ events' = [events EXCEPT ![name] = MaxAttempts]
    /\ copied' = [copied EXCEPT ![name] = {}]
    /\ budget' = budget - 1
    /\ UNCHANGED <<now, bronze, vlog, silver, catalog, job, hist, lastfail>>

\* at-least-once delivery: S3 may deliver the event of an object again
Redeliver(name) ==
    /\ budget > 0
    /\ name \in DOMAIN landing
    /\ events[name] = 0
    /\ events' = [events EXCEPT ![name] = MaxAttempts]
    /\ budget' = budget - 1
    /\ UNCHANGED <<now, landing, bronze, vlog, copied, silver, catalog, job, hist, lastfail>>

\* a month passes
Tick ==
    /\ budget > 0
    /\ now' = now + 1
    /\ budget' = budget - 1
    /\ UNCHANGED <<landing, events, bronze, vlog, copied, silver, catalog, job, hist, lastfail>>

----------------------------------------------------------------------------
(* whatsapp_silver: the Glue job *)

RECURSIVE ConcatFiles(_, _, _)
\* every .txt file under bronze/whatsapp/ is parsed and the rows concatenated
ConcatFiles(store, keys, i) ==
    IF i > Len(keys) THEN <<>>
    ELSE parse_chat(store[keys[i]], keys[i]) \o ConcatFiles(store, keys, i + 1)

BuildFrame(store) == ConcatFiles(store, SortKeys(DOMAIN store), 1)

DatesOf(df) == {df[i].date : i \in 1..Len(df)}

\* the frame is written to the partition without grouping by date
PartitionRows_ungrouped(df, d) == df

\* the rows of one date partition
PartitionRows(df, d) == SelectSeq(df, LAMBDA r : r.date = d)

\* mode=append instead of overwrite_partitions
OverwritePartition_append(old, rows) == old \o rows

\* mode=overwrite_partitions: the partition is replaced by the new rows
OverwritePartition(old, rows) == rows

PartitionOrEmpty(s, d) == IF d \in DOMAIN s THEN s[d] ELSE <<>>

\* mode=overwrite: everything under silver/whatsapp/ is deleted first
kept_on_write_nothing(s) == [d \in {} |-> <<>>]

\* mode=overwrite_partitions: no partition is deleted ahead of its own write
kept_on_write(s) == s

\* silver after the partitions W of the frame df have been written
WritePartitions(s, df, W) ==
    [d \in DOMAIN s \cup W |->
        IF d \in W THEN OverwritePartition(PartitionOrEmpty(s, d), PartitionRows(df, d))
        ELSE s[d]]

\* how a run relates to the last completed one: "same" bronze set, the set
\* plus one "added" object, or "other"; "first" when there was none
RerunOf(h, store, s) ==
    IF h = None THEN [kind |-> "first"]
    ELSE IF s # h.after THEN [kind |-> "other"]
    ELSE IF store = h.src THEN [kind |-> "same"]
    ELSE IF /\ DOMAIN h.src \subseteq DOMAIN store
            /\ Cardinality(DOMAIN store \ DOMAIN h.src) = 1
            /\ \A k \in DOMAIN h.src : store[k] = h.src[k]
         THEN [kind |-> "added", key |-> CHOOSE k \in DOMAIN store : k \notin DOMAIN h.src]
         ELSE [kind |-> "other"]

\* the run goes on to parse and write without looking at the listing
run_outcome_unchecked(keys) == "succeeded"

\* the listing of bronze/whatsapp/ decides how the run goes on
run_outcome(keys) == IF keys = {} THEN "nothing to process" ELSE "succeeded"

\* with no .txt file in the bronze layer the job logs "No bronze files to
\* process" and exits cleanly without writing anything
JobNothing ==
    /\ budget > 0
    /\ DOMAIN bronze = {}
    /\ budget' = budget - 1
    /\ job' = run_outcome(DOMAIN bronze)
    /\ UNCHANGED <<now, landing, events, bronze, vlog, copied, silver, catalog, hist, lastfail>>

\* a complete run: list and parse the bronze layer, write every date
\* partition of the frame, register or refresh the catalog table
JobRun ==
    /\ budget > 0
    /\ DOMAIN bronze # {}
    /\ budget' = budget - 1
    /\ LET df == BuildFrame(bronze)
           after == WritePartitions(kept_on_write(silver), df, DatesOf(df))
       IN /\ silver' = after
          /\ catalog' = [table |-> "whatsapp_messages", partitions |-> DOMAIN after]
          /\ hist' = [src |-> bronze, after |-> after,
                      rerun |-> RerunOf(hist, bronze, silver), recovers |-> lastfail]
    /\ job' = run_outcome(DOMAIN bronze)
    /\ lastfail' = None
    /\ UNCHANGED <<now, landing, events, bronze, vlog, copied>>

\* no write is under way when the run fails
NoPartial == [date |-> None, rows |-> 0]

\* the partition a failing run is writing: already removed with none of its
\* new rows written (rows = 0), or with only the first rows written
PartialWrites(df, W) ==
    {NoPartial} \cup
    UNION {{[date |-> d, rows |-> k] : k \in 0..(Len(PartitionRows(df, d)) - 1)} :
                d \in DatesOf(df) \ W}

\* silver when the write of the partition p.date was cut short
CutShort(s, df, p) ==
    IF p = NoPartial THEN s
    ELSE IF p.rows = 0 THEN [d \in DOMAIN s \ {p.date} |-> s[d]]
    ELSE [d \in DOMAIN s \cup {p.date} |->
            IF d = p.date THEN SubSeq(PartitionRows(df, d), 1, p.rows) ELSE s[d]]

Touched(W, p) == W \cup (IF p = NoPartial THEN {} ELSE {p.date})

\* an unhandled exception fails the whole run: the partitions W written so
\* far stay, the partition p being written is left incomplete, the others
\* and the catalog are not touched
JobFail(W, p) ==
    /\ budget > 0
    /\ DOMAIN bronze # {}
    /\ W \subseteq DatesOf(BuildFrame(bronze))
    /\ p \in PartialWrites(BuildFrame(bronze), W)
    /\ budget' = budget - 1
    /\ LET df == BuildFrame(bronze)
           after == CutShort(WritePartitions(kept_on_write(silver), df, W), df, p)
       IN /\ silver' = after
          /\ lastfail' = [src |-> bronze, before |-> silver, after |-> after,
                          touched |-> Touched(W, p)]
    /\ job' = "failed"
    /\ UNCHANGED <<now, landing, events, bronze, vlog, copied, catalog, hist>>

----------------------------------------------------------------------------
(* photo_processor: thumbnail size and tags *)

THUMB_MAX == 300

Abs(x) == IF x < 0 THEN -x ELSE x
Max2(x, y) == IF x >= y THEN x ELSE y
CeilDiv(p, q) == (p + q - 1) \div q

\* Image.thumbnail without the test for images that already fit the box
thumbnail_upscaling(w, h, box) ==
    IF box * h >= box * w
    THEN LET lo == (box * w) \div h
             hi == CeilDiv(box * w, h)
         IN <<Max2(IF Abs(w * box - lo * h) <= Abs(w * box - hi * h) THEN lo ELSE hi, 1), box>>
    ELSE LET lo == (box * h) \div w
             hi == CeilDiv(box * h, w)
         IN <<box, Max2(IF lo = 0 \/ Abs(w * lo - box * h) * hi <= Abs(w * hi - box * h) * lo
                        THEN lo ELSE hi, 1)>>

\* img.thumbnail((300, 300), Image.LANCZOS): the size Pillow resizes to.
\* An image that fits the box keeps its size; otherwise the side that limits
\* the fit becomes box and the other one is the floor or the ceiling of the
\* scaled length, whichever keeps the aspect ratio closer (floor on a tie),
\* and at least 1.
thumbnail(w, h, box) ==
    IF box >= w /\ box >= h THEN <<w, h>>
    ELSE IF box * h >= box * w
    THEN LET lo == (box * w) \div h
             hi == CeilDiv(box * w, h)
         IN <<Max2(IF Abs(w * box - lo * h) <= Abs(w * box - hi * h) THEN lo ELSE hi, 1), box>>
    ELSE LET lo == (box * h) \div w
             hi == CeilDiv(box * h, w)
         IN <<box, Max2(IF lo = 0 \/ Abs(w * lo - box * h) * hi <= Abs(w * hi - box * h) * lo
                        THEN lo ELSE hi, 1)>>

NoFlash == -1           \* the image has no EXIF Flash field

\* landscape against the plain comparison of the sides, without the 5% band
orientation_no_band(width, height) ==
    IF width > height THEN "landscape"
    ELSE IF height > width THEN "portrait"
    ELSE "square"

\* landscape if width > height * 1.05, portrait if height > width * 1.05,
\* square otherwise
orientation(width, height) ==
    IF 100 * width > 105 * height THEN "landscape"
    ELSE IF 100 * height > 105 * width THEN "portrait"
    ELSE "square"

\* flash when bit 0 of the EXIF Flash value says the flash fired, gps when
\* the GPS sub-metadata is present
derive_tags(width, height, flash, gps) ==
    {orientation(width, height)}
        \cup (IF flash # NoFlash /\ flash % 2 = 1 THEN {"flash"} ELSE {})
        \cup (IF gps THEN {"gps"} ELSE {})

----------------------------------------------------------------------------
(* photo_processor: the media processor *)

PhotoNames == {"p.jpg", "q.png"}

\* the images a user uploads: a large landscape photo with EXIF data, a
\* small image without, and a file Pillow cannot decode
Images ==
    {[id |-> 1, ok |-> TRUE, w |-> 4000, h |-> 3000, flash |-> 1, gps |-> TRUE],
     [id |-> 2, ok |-> TRUE, w |-> 100, h |-> 80, flash |-> NoFlash, gps |-> FALSE],
     [id |-> 3, ok |-> FALSE, w |-> 0, h |-> 0, flash |-> NoFlash, gps |-> FALSE]}

\* raw-photos/<filename>, photos/originals/<filename>, photos/thumbnails/<filename>
RawKey(name) == [prefix |-> "raw-photos", name |-> name]

\* the thumbnail is stored under the identifier of the metadata record
photo_keys_by_id(filename, photo_id) ==
    [original_key |-> [prefix |-> "photos/originals", name |-> filename],
     thumbnail_key |-> [prefix |-> "photos/thumbnails", name |-> filename, id |-> photo_id]]

photo_keys(filename, photo_id) ==
    [original_key |-> [prefix |-> "photos/originals", name |-> filename],
     thumbnail_key |-> [prefix |-> "photos/thumbnails", name |-> filename]]

\* the identifier is derived from the source key
new_photo_id_from_key(source_key, uuid) == source_key

\* photo_id: a random UUID, new on every invocation
new_photo_id(source_key, uuid) == uuid

\* a conditional write: no second record for a source key that has one
put_item_once_per_source(t, id, item) ==
    IF \E k \in DOMAIN t : t[k].source_key = item.source_key THEN t ELSE Put(t, id, item)

\* table.put_item(Item=item): unconditional, keyed by photo_id
put_item(t, id, item) == Put(t, id, item)

\* the steps of one invocation, in order; an invocation that fails at step
\* k has completed the steps before k
StepRead == 1           \* GetObject raw-photos/<filename>
StepCopy == 2           \* CopyObject to photos/originals/<filename>
StepDecode == 3         \* Pillow decodes the image and makes the thumbnail
StepPutThumb == 4       \* PutObject photos/thumbnails/<filename>
StepPutItem == 5        \* DynamoDB put_item
StepDone == 6

\* one invocation for the ObjectCreated event of raw-photos/<name> that
\* runs up to, and not including, step stop (StepDone: the whole handler)
PhotoInvoke(name, stop) ==
    /\ pevents[name] > 0
    /\ name \in DOMAIN rawPhotos
    /\ LET img == rawPhotos[name]
           id == new_photo_id(RawKey(name), uuids + 1)
           keys == photo_keys(name, id)
           \* a file that cannot be decoded fails at StepDecode at the latest
           reached == IF ~img.ok /\ stop > StepDecode THEN StepDecode ELSE stop
           item == [photo_id |-> id, filename |-> name,
                    original_key |-> keys.original_key,
                    thumbnail_key |-> keys.thumbnail_key,
                    source_key |-> RawKey(name),
                    width |-> img.w, height |-> img.h,
                    tags |-> derive_tags(img.w, img.h, img.flash, img.gps),
                    uploaded_at |-> now]
           withOriginal == IF reached > StepCopy
                           THEN Put(objects, keys.original_key, [bytes |-> img.id])
                           ELSE objects
           withThumb == IF reached > StepPutThumb
                        THEN Put(withOriginal, keys.thumbnail_key,
                                 [thumb_of |-> img.id, size |-> thumbnail(img.w, img.h, THUMB_MAX)])
                        ELSE withOriginal
       IN /\ objects' = withThumb
          /\ table' = IF reached > StepPutItem THEN put_item(table, id, item) ELSE table
          /\ pevents' = [pevents EXCEPT ![name] = IF reached = StepDone THEN 0 ELSE @ - 1]
          /\ plog' = [plog EXCEPT ![name] =
                        [completed |-> @.completed + (IF reached > StepPutItem THEN 1 ELSE 0),
                         failed |-> @.failed + (IF reached < StepDone THEN 1 ELSE 0),
                         item_failed |-> reached = StepPutItem,
                         retried |-> reached = StepDone /\ @.item_failed,
                         keys |-> @.keys
                                        \cup (IF reached > StepCopy THEN {keys.original_key} ELSE {})
                                        \cup (IF reached > StepPutThumb THEN {keys.thumbnail_key} ELSE {})]]
    /\ uuids' = uuids + 1
    /\ UNCHANGED <<now, rawPhotos, pbudget>>

\* HomePage.handleUpload for an image: the object lands at raw-photos/<name>
PhotoUpload(name, img) ==
    /\ pbudget > 0
    /\ rawPhotos' = Put(rawPhotos, name, img)
    /\ pevents' = [pevents EXCEPT ![name] = MaxAttempts]
    /\ pbudget' = pbudget - 1
    /\ UNCHANGED <<now, objects, table, uuids, plog>>

\* at-least-once delivery: S3 may deliver the event of an object again
PhotoRedeliver(name) ==
    /\ pbudget > 0
    /\ name \in DOMAIN rawPhotos
    /\ pevents[name] = 0
    /\ pevents' = [pevents EXCEPT ![name] = MaxAttempts]
    /\ pbudget' = pbudget - 1
    /\ UNCHANGED <<now, rawPhotos, objects, table, uuids, plog>>

InitPhoto ==
    /\ rawPhotos = <<>>
    /\ pevents = [n \in PhotoNames |-> 0]
    /\ objects = <<>>
    /\ table = <<>>
    /\ uuids = 0
    /\ plog = [n \in PhotoNames |-> [completed |-> 0, failed |-> 0, item_failed |-> FALSE,
                                       retried |-> FALSE,
                                       keys |-> {}]]
    /\ pbudget = MaxPhotoOps

----------------------------------------------------------------------------
(* whatsapp_api: running an Athena query *)

MAX_POLLS == 60

EngineStates == {"QUEUED", "RUNNING", "SUCCEEDED", "FAILED", "CANCELLED"}

\* CANCELLED is not looked at by the loop body
after_poll_cancel_ignored(state) ==
    IF state = "SUCCEEDED" THEN "break"
    ELSE IF state = "FAILED" THEN "raise"
    ELSE "sleep"

\* the loop body after one get_query_execution call: break on SUCCEEDED,
\* raise on FAILED or CANCELLED, otherwise sleep POLL_SLEEP and poll again
after_poll(state) ==
    IF state = "SUCCEEDED" THEN "break"
    ELSE IF state \in {"FAILED", "CANCELLED"} THEN "raise"
    ELSE "sleep"

\* the number of calls made is compared with MAX_POLLS after the loop
loop_else_by_count(broke, n) == n >= MAX_POLLS

\* for ... else: the else clause runs when range(MAX_POLLS) is used up and
\* the loop was not left by break
loop_else(broke, n) == ~broke /\ n >= MAX_POLLS

RuntimeError(state) == [type |-> "RuntimeError", msg |-> <<"Athena query", state>>]
TimeoutError == [type |-> "TimeoutError", msg |-> <<"Athena query timed out">>]

\* a row of a result set is named by its page and its place on the page;
\* the header row is the row before the first data row
Header == <<1, 0>>

\* the data rows of page i when it holds n of them
DataRows(i, n) == [j \in 1..n |-> <<i, j>>]

\* result sets as get_query_results pages them: up to MaxPages pages of up
\* to MaxPageRows data rows, the first row of the first page is the header
ResultPages ==
    UNION {{[i \in 1..k |-> IF i = 1 THEN <<Header>> \o DataRows(i, f[i]) ELSE DataRows(i, f[i])] :
                f \in [1..k -> 0..MaxPageRows]} : k \in 1..MaxPages}

RECURSIVE Flatten(_, _)
Flatten(pages, i) == IF i > Len(pages) THEN <<>> ELSE pages[i] \o Flatten(pages, i + 1)

NoToken == 0

\* result.get('NextToken'): the token of the page after page i, if any
NextToken(pages, i) == IF i < Len(pages) THEN i + 1 ELSE NoToken

\* the header row is skipped on every page
page_rows_skip_always(data_rows, first_page) == SubSeq(data_rows, 2, Len(data_rows))

\* if first_page: data_rows = data_rows[1:]
page_rows(data_rows, first_page) ==
    IF first_page THEN SubSeq(data_rows, 2, Len(data_rows)) ELSE data_rows

\* one iteration of the while loop and the iterations after it: the page
\* named by the token is read, its rows are appended, and the loop goes on
\* while the page carries a NextToken
RECURSIVE pagination_loop(_, _, _)
pagination_loop(pages, token, first_page) ==
    LET data_rows == page_rows(pages[token], first_page)
        next_token == NextToken(pages, token)
    IN IF next_token = NoToken THEN data_rows
       ELSE data_rows \o pagination_loop(pages, next_token, FALSE)

\* the pagination loop, from the first call without a token
collect_rows(pages) == pagination_loop(pages, 1, TRUE)

\* start_query_execution
StartQuery ==
    /\ qpc = "start"
    /\ qpc' = "poll"
    /\ polls' = 0
    /\ UNCHANGED <<qstate, raised, qrows>>

\* one iteration of the polling loop; the engine answers with state
Poll(state) ==
    /\ qpc = "poll"
    /\ polls < MAX_POLLS
    /\ polls' = polls + 1
    /\ qstate' = state
    /\ LET todo == after_poll(state)
       IN IF todo = "raise"
          THEN raised' = RuntimeError(state) /\ qpc' = "done"
          ELSE IF loop_else(todo = "break", polls + 1)
          THEN raised' = TimeoutError /\ qpc' = "done"
          ELSE IF todo = "break"
          THEN raised' = raised /\ qpc' = "fetch"
          ELSE raised' = raised /\ qpc' = "poll"
    /\ UNCHANGED qrows

\* after SUCCEEDED: page through get_query_results
FetchResults(pages) ==
    /\ qpc = "fetch"
    /\ qrows' = [fetched |-> TRUE, pages |-> pages, rows |-> collect_rows(pages)]
    /\ qpc' = "done"
    /\ UNCHANGED <<polls, qstate, raised>>

NoRows == [fetched |-> FALSE, pages |-> <<>>, rows |-> <<>>]

InitApi ==
    /\ qpc = "start"
    /\ polls = 0
    /\ qstate = "none"
    /\ raised = None
    /\ qrows = NoRows

----------------------------------------------------------------------------
(* App: the router and the navigation controls of the pages.  An entry of  *)
(* the history stack is a location and the control that led to it.         *)

HOME == "/"
LIBRARY == "/library"

\* LibraryPage: const SECTIONS = [{ key: 'photos' }, { key: 'whatsapp' }, { key: 'files' }]
SECTIONS == {"photos", "whatsapp", "files"}

\* `/library/${key}`
CardPath(key) ==
    CASE key = "photos" -> "/library/photos"
      [] key = "whatsapp" -> "/library/whatsapp"
      [] key = "files" -> "/library/files"

SubPages == {CardPath(key) : key \in SECTIONS}

\* <Routes>: the paths with a page of their own; path="*" catches the rest
RoutePaths == {HOME, LIBRARY} \cup SubPages

\* locations a user can type into the address bar
UnknownPaths == {"/nope", "/library/videos"}
Locations == RoutePaths \cup UnknownPaths

location == history[Len(history)].path

\* navigate(to): a new entry on top of the stack
navigate(to, control) == history' = Append(history, [path |-> to, via |-> control])

\* every page's back control sends to the home page
back_target_home(page) == HOME
\* the onClick of the back button of each page: navigate('/') on
\* LibraryPage, navigate('/library') on the three sub-pages
back_target(page) == IF page = LIBRARY THEN HOME ELSE LIBRARY

\* the page is loaded at a typed location: a fresh history
OpenUrl(to) == history' = <<[path |-> to, via |-> "url"]>>

\* <Route path="*" element={<Navigate to="/library" replace />} />
RedirectUnknown ==
    /\ location \notin RoutePaths
    /\ history' = [history EXCEPT ![Len(history)] = [path |-> LIBRARY, via |-> "redirect"]]

\* HomePage: the Library button
OpenLibrary ==
    /\ location = HOME
    /\ Len(history) < MaxHistory
    /\ navigate(LIBRARY, "library")

\* LibraryPage: a section card
OpenCard(key) ==
    /\ location = LIBRARY
    /\ Len(history) < MaxHistory
    /\ navigate(CardPath(key), "card")

\* LibraryPage, PhotosPage, WhatsAppPage, OtherFilesPage: the back button
Back ==
    /\ location \in {LIBRARY} \cup SubPages
    /\ Len(history) < MaxHistory
    /\ navigate(back_target(location), "back")

InitUi == history = <<[path |-> HOME, via |-> "url"]>>

----------------------------------------------------------------------------
(* whatsapp_api: building the SQL text.  A text is a sequence whose        *)
(* elements are single characters, or whole pieces of the handler's own    *)
(* SQL (which contain no quote).                                           *)

Quote == "'"

\* characters of a caller-supplied value: the quote, a lower-case and an
\* upper-case letter
Chars == {Quote, "a", "A"}

\* str.lower()
lower(value) == [i \in 1..Len(value) |-> IF value[i] = "A" THEN "a" ELSE value[i]]

RECURSIVE escape_first_only(_)
RECURSIVE _escape_sql_string(_)
\* value.replace("'", "''", 1): only the first quote is doubled
escape_first_only(value) ==
    IF value = <<>> THEN <<>>
    ELSE IF Head(value) = Quote THEN <<Quote, Quote>> \o Tail(value)
    ELSE <<Head(value)>> \o escape_first_only(Tail(value))

\* value.replace("'", "''")
_escape_sql_string(value) ==
    IF value = <<>> THEN <<>>
    ELSE IF Head(value) = Quote THEN <<Quote, Quote>> \o _escape_sql_string(Tail(value))
    ELSE <<Head(value)>> \o _escape_sql_string(Tail(value))

\* f"LOWER(sender) LIKE '%{_escape_sql_string(sender.lower())}%'"
sender_clause(sender) ==
    <<"LOWER(sender) LIKE ", Quote, "%">> \o _escape_sql_string(lower(sender)) \o <<"%", Quote>>

\* the free-text search, escaped and interpolated like the sender
search_clause(search) ==
    <<"LOWER(message) LIKE ", Quote, "%">> \o _escape_sql_string(lower(search)) \o <<"%", Quote>>

\* the date filter, escaped and compared with the partition column
date_clause(date) ==
    <<"date = ", Quote>> \o _escape_sql_string(date) \o <<Quote>>

RECURSIVE JoinAnd(_)
JoinAnd(clauses) ==
    IF clauses = <<>> THEN <<>>
    ELSE IF Len(clauses) = 1 THEN clauses[1]
    ELSE clauses[1] \o <<" AND ">> \o JoinAnd(Tail(clauses))

\* the conditions of the parameters that were sent (the page sends a
\* parameter only when its field is not empty)
where_clauses(sender, search, date) ==
    (IF sender # <<>> THEN <<sender_clause(sender)>> ELSE <<>>)
    \o (IF search # <<>> THEN <<search_clause(search)>> ELSE <<>>)
    \o (IF date # <<>> THEN <<date_clause(date)>> ELSE <<>>)

build_query(sender, search, date) ==
    <<"SELECT * FROM whatsapp_messages">>
    \o (IF where_clauses(sender, search, date) = <<>> THEN <<>>
        ELSE <<" WHERE ">> \o JoinAnd(where_clauses(sender, search, date)))

----------------------------------------------------------------------------
(* photos_api: GET /photos *)

THUMB_URL_TTL == 3600       \* thumbnail_url expires in 1 hour
ORIGINAL_URL_TTL == 86400   \* original_url expires in 24 hours

\* generate_presigned_url: a function of the key and the expiry
presign(key, ttl) == [key |-> key, expires_in |-> ttl]

NoKey == 0

\* table.scan(ExclusiveStartKey=key): the items after key, limit of them at
\* most; a page that is full carries a LastEvaluatedKey, also when no item
\* follows it
scan(t, key, limit) ==
    LET last == IF key + limit <= Len(t) THEN key + limit ELSE Len(t)
    IN [Items |-> SubSeq(t, key + 1, last),
        LastEvaluatedKey |-> IF key + limit <= Len(t) THEN last ELSE NoKey]

\* the first page only: LastEvaluatedKey is not followed
scan_first_page(t, key, limit) == scan(t, key, limit).Items

\* the scan loop: scan() is called again with the LastEvaluatedKey of the
\* page before for as long as a page carries one
RECURSIVE scan_all(_, _, _)
scan_all(t, key, limit) ==
    LET resp == scan(t, key, limit)
    IN IF resp.LastEvaluatedKey = NoKey THEN resp.Items
       ELSE resp.Items \o scan_all(t, resp.LastEvaluatedKey, limit)

\* the number of scan() calls the loop makes
RECURSIVE scan_calls(_, _, _)
scan_calls(t, key, limit) ==
    LET resp == scan(t, key, limit)
    IN IF resp.LastEvaluatedKey = NoKey THEN 1
       ELSE 1 + scan_calls(t, resp.LastEvaluatedKey, limit)

\* where x goes in a list sorted newest first: behind the items that are
\* not older (sorted() keeps the scan order of items with equal keys)
InsertNewestFirst(sorted, x) ==
    LET k == Cardinality({i \in 1..Len(sorted) : sorted[i].uploaded_at >= x.uploaded_at})
    IN SubSeq(sorted, 1, k) \o <<x>> \o SubSeq(sorted, k + 1, Len(sorted))

InsertOldestFirst(sorted, x) ==
    LET k == Cardinality({i \in 1..Len(sorted) : sorted[i].uploaded_at <= x.uploaded_at})
    IN SubSeq(sorted, 1, k) \o <<x>> \o SubSeq(sorted, k + 1, Len(sorted))

RECURSIVE SortOldestFirst(_, _, _)
SortOldestFirst(items, i, acc) ==
    IF i > Len(items) THEN acc
    ELSE SortOldestFirst(items, i + 1, InsertOldestFirst(acc, items[i]))

RECURSIVE SortNewestFirst(_, _, _)
SortNewestFirst(items, i, acc) ==
    IF i > Len(items) THEN acc
    ELSE SortNewestFirst(items, i + 1, InsertNewestFirst(acc, items[i]))

\* the sort without reverse=True
sort_photos_ascending(items) == SortOldestFirst(items, 1, <<>>)

\* GET step 2: sort by uploaded_at descending (newest first)
sort_photos(items) == SortNewestFirst(items, 1, <<>>)

NoTag == ""

\* the optional tag filter: keep the records whose tags include the tag
filter_by_tag(items, tag) ==
    IF tag = NoTag THEN items ELSE SelectSeq(items, LAMBDA p : tag \in p.tags)

\* GET step 3: two pre-signed URLs per item
with_urls(item) ==
    [photo_id |-> item.photo_id, filename |-> item.filename,
     uploaded_at |-> item.uploaded_at, tags |-> item.tags,
     thumbnail_url |-> presign([prefix |-> "photos/thumbnails", name |-> item.filename],
                               THUMB_URL_TTL),
     original_url |-> presign([prefix |-> "photos/originals", name |-> item.filename],
                              ORIGINAL_URL_TTL)]

\* the GET handler, given the items in the order the scan returned them
list_photos(scanned, tag) ==
    LET kept == filter_by_tag(sort_photos(scanned), tag)
    IN [i \in 1..Len(kept) |-> with_urls(kept[i])]

----------------------------------------------------------------------------
(* HomePage.handleUpload: the storage key of an upload.  A file name is a  *)
(* sequence of pieces: a piece is a dot or a run of characters without dot *)

Dot == "."

\* String.prototype.toLowerCase on a piece
toLowerCase(piece) ==
    IF piece = "TXT" THEN "txt" ELSE IF piece = "Jpg" THEN "jpg" ELSE piece

\* index of the last dot of a name, 0 when it has none
LastDot(name) ==
    IF \E i \in 1..Len(name) : name[i] = Dot
    THEN CHOOSE i \in 1..Len(name) : name[i] = Dot /\ \A j \in (i + 1)..Len(name) : name[j] # Dot
    ELSE 0

\* fileName.split('.').pop().toLowerCase(): the text after the last dot,
\* the whole name when it has no dot
extension(fileName) ==
    LET last == SubSeq(fileName, LastDot(fileName) + 1, Len(fileName))
    IN [i \in 1..Len(last) |-> toLowerCase(last[i])]

\* the prefix chosen by the if / else if chain, misc/ by default
storagePrefix(fileName) ==
    LET ext == extension(fileName)
    IN IF ext = <<"zip">> THEN "uploads-landing"
       ELSE IF ext = <<"txt">> THEN "raw-whatsapp-uploads"
       ELSE IF ext \in {<<"jpg">>, <<"jpeg">>, <<"png">>, <<"webp">>} THEN "raw-photos"
       ELSE "misc"

storagePath(fileName) == [prefix |-> storagePrefix(fileName), name |-> fileName]

----------------------------------------------------------------------------
(* PhotosPage and WhatsAppPage: the state hooks, the controls and the      *)
(* fetches.  A fetch is in flight from the call of fetchPhotos /           *)
(* fetchMessages to its finally block.                                     *)

SortOptions == {"uploaded_at", "taken_at"}
TagOptions == {"", "landscape", "portrait", "square", "flash", "gps"}

\* new URLSearchParams({ sort_by: sort }); if (tag) params.set('tag', tag)
photo_params(sort, tag) ==
    IF tag # "" THEN [sort_by |-> sort, tag |-> tag] ELSE [sort_by |-> sort]

\* a JSON array, named by the query it answers
ArrayFor(params) == [isArray |-> TRUE, answers |-> params]

\* a JSON value that is not an array, e.g. {"message": "Unauthorized"}
ErrorObject == [isArray |-> FALSE, answers |-> None]

\* useState([])
EmptyArray == [isArray |-> TRUE, answers |-> None]

\* the JSON values the service can answer a request with
Bodies(params) == {ArrayFor(params), ErrorObject}

\* the request is made from the state of the last render
fetchPhotos_stale(sort, tag) ==
    [photosPage EXCEPT
        !.loading = TRUE,
        !.issued = @ + 1,
        !.requests = Append(@, [id |-> photosPage.issued + 1,
                                params |-> photo_params(photosPage.sortBy,
                                                        photosPage.tagFilter)])]

\* fetchPhotos(sort, tag) up to its first await: setLoading(true) and a
\* request with the parameters made from the arguments
fetchPhotos(sort, tag) ==
    [photosPage EXCEPT
        !.loading = TRUE,
        !.issued = @ + 1,
        !.requests = Append(@, [id |-> photosPage.issued + 1,
                                params |-> photo_params(sort, tag)])]

\* the sequence q without its element k
Without(q, k) == SubSeq(q, 1, k - 1) \o SubSeq(q, k + 1, Len(q))

\* useEffect(() => { fetchPhotos(); }, []): the arguments default to the
\* state of the render
PhotosMount ==
    /\ ~photosPage.mounted
    /\ fetches > 0
    /\ fetches' = fetches - 1
    /\ photosPage' = [fetchPhotos(photosPage.sortBy, photosPage.tagFilter)
                        EXCEPT !.mounted = TRUE]
    /\ UNCHANGED whatsAppPage

\* the Refresh button, disabled while loading: fetchPhotos()
PhotosRefresh ==
    /\ photosPage.mounted
    /\ ~photosPage.loading
    /\ fetches > 0
    /\ fetches' = fetches - 1
    /\ photosPage' = fetchPhotos(photosPage.sortBy, photosPage.tagFilter)
    /\ UNCHANGED whatsAppPage

\* the sort selector: setSortBy(v); fetchPhotos(v, tagFilter)
ChangeSort(v) ==
    /\ photosPage.mounted
    /\ v # photosPage.sortBy
    /\ fetches > 0
    /\ fetches' = fetches - 1
    /\ photosPage' = [fetchPhotos(v, photosPage.tagFilter) EXCEPT !.sortBy = v]
    /\ UNCHANGED whatsAppPage

\* the tag selector: setTagFilter(t); fetchPhotos(sortBy, t)
ChangeTag(t) ==
    /\ photosPage.mounted
    /\ t # photosPage.tagFilter
    /\ fetches > 0
    /\ fetches' = fetches - 1
    /\ photosPage' = [fetchPhotos(photosPage.sortBy, t) EXCEPT !.tagFilter = t]
    /\ UNCHANGED whatsAppPage

\* setPhotos(await res.json()), then finally setLoading(false): the
\* response to the k-th request in flight arrives with the given body
PhotosResponse(k, body) ==
    /\ k \in 1..Len(photosPage.requests)
    /\ body \in Bodies(photosPage.requests[k].params)
    /\ photosPage' = [photosPage EXCEPT
            !.photos = body,
            !.loading = FALSE,
            !.handled = @ + 1,
            !.requests = Without(@, k)]
    /\ UNCHANGED <<whatsAppPage, fetches>>

\* fetchAuthSession, fetch or res.json() rejects: catch, then finally
\* setLoading(false)
PhotosError(k) ==
    /\ k \in 1..Len(photosPage.requests)
    /\ photosPage' = [photosPage EXCEPT
            !.loading = FALSE,
            !.rejected = @ + 1,
            !.requests = Without(@, k)]
    /\ UNCHANGED <<whatsAppPage, fetches>>

\* WhatsAppPage: useEffect(() => { fetchMessages(); }, []), and the Refresh
\* and Apply buttons, both disabled while loading
FetchMessages ==
    /\ ~whatsAppPage.mounted \/ ~whatsAppPage.loading
    /\ fetches > 0
    /\ fetches' = fetches - 1
    /\ whatsAppPage' = [whatsAppPage EXCEPT
            !.mounted = TRUE,
            !.loading = TRUE,
            !.issued = @ + 1,
            !.requests = Append(@, [id |-> whatsAppPage.issued + 1,
                                    params |-> [limit |-> 500]])]
    /\ UNCHANGED photosPage

\* Array.isArray(data) ? data : []
array_or_empty(data) == IF data.isArray THEN data ELSE EmptyArray

\* const data = await res.json(); setMessages(Array.isArray(data) ? data : [])
MessagesResponse(k, body) ==
    /\ k \in 1..Len(whatsAppPage.requests)
    /\ body \in Bodies(whatsAppPage.requests[k].params)
    /\ whatsAppPage' = [whatsAppPage EXCEPT
            !.messages = array_or_empty(body),
            !.loading = FALSE,
            !.handled = @ + 1,
            !.requests = Without(@, k)]
    /\ UNCHANGED <<photosPage, fetches>>

MessagesError(k) ==
    /\ k \in 1..Len(whatsAppPage.requests)
    /\ whatsAppPage' = [whatsAppPage EXCEPT
            !.loading = FALSE,
            !.rejected = @ + 1,
            !.requests = Without(@, k)]
    /\ UNCHANGED <<photosPage, fetches>>

\* the values of the useState calls, before the mount effect has run
InitPages ==
    /\ photosPage = [mounted |-> FALSE, photos |-> EmptyArray, loading |-> FALSE,
                     sortBy |-> "uploaded_at", tagFilter |-> "",
                     requests |-> <<>>, issued |-> 0, handled |-> 0, rejected |-> 0]
    /\ whatsAppPage = [mounted |-> FALSE, messages |-> EmptyArray, loading |-> FALSE,
                       requests |-> <<>>, issued |-> 0, handled |-> 0, rejected |-> 0]
    /\ fetches = MaxFetches

----------------------------------------------------------------------------
(* Two ingestion invocations that run at the same time.  Each is one       *)
(* Lambda invocation for one ObjectCreated event and takes the steps of    *)
(* its handler one at a time; the steps of the two interleave freely.      *)

\* an invocation at its start: no step taken, nothing written
Invocation(kind, name) ==
    [kind |-> kind, name |-> name, pc |-> "read", writes |-> {}, photo_id |-> 0]

Invocations ==
    {Invocation("whatsapp_bronze", n) : n \in NameSet}
        \cup {Invocation("photo_processor", n) : n \in PhotoNames}

\* the invocation i goes on to step pc, having written the keys ks
Proceed(i, pc, ks) ==
    running' = [running EXCEPT ![i].pc = pc, ![i].writes = @ \cup ks]

IsRunning(i, kind, pc) ==
    /\ i \in DOMAIN running
    /\ running[i].kind = kind
    /\ running[i].pc = pc

\* whatsapp_bronze step 2: GetObject
BronzeRead(i) ==
    /\ IsRunning(i, "whatsapp_bronze", "read")
    /\ Proceed(i, "validate", {})
    /\ UNCHANGED <<chatVars, photoVars>>

\* whatsapp_bronze step 3 and step 5: the check of the first lines; an
\* invalid file is skipped
BronzeValidate(i) ==
    /\ IsRunning(i, "whatsapp_bronze", "validate")
    /\ Proceed(i, IF is_whatsapp_export(landing[running[i].name].content)
                  THEN "copy" ELSE "skipped", {})
    /\ UNCHANGED <<chatVars, photoVars>>

\* whatsapp_bronze step 4: CopyObject into the bronze layer
BronzeCopy(i) ==
    /\ IsRunning(i, "whatsapp_bronze", "copy")
    /\ LET obj == landing[running[i].name]
           dest == dest_key(running[i].name, now, obj.lastModified)
       IN /\ bronze' = ValidatorWrites(bronze, TRUE, dest, obj.content)
          /\ Proceed(i, "done", {dest})
    /\ UNCHANGED <<now, landing, events, vlog, copied, silver, catalog, job, hist, lastfail,
                   budget, photoVars>>

\* photo_processor step 1: GetObject; the invocation has its own UUID
ProcessorRead(i) ==
    /\ IsRunning(i, "photo_processor", "read")
    /\ running' = [running EXCEPT ![i].pc = "copy",
                                  ![i].photo_id = new_photo_id(RawKey(running[i].name), uuids + 1)]
    /\ uuids' = uuids + 1
    /\ UNCHANGED <<chatVars, rawPhotos, pevents, objects, table, plog, pbudget>>

\* photo_processor step 2: CopyObject to photos/originals/
ProcessorCopy(i) ==
    /\ IsRunning(i, "photo_processor", "copy")
    /\ LET keys == photo_keys(running[i].name, running[i].photo_id)
       IN /\ objects' = Put(objects, keys.original_key,
                            [bytes |-> rawPhotos[running[i].name].id])
          /\ Proceed(i, "decode", {keys.original_key})
    /\ UNCHANGED <<chatVars, rawPhotos, pevents, table, uuids, plog, pbudget>>

\* photo_processor step 3: Pillow decodes the image, or raises
ProcessorDecode(i) ==
    /\ IsRunning(i, "photo_processor", "decode")
    /\ Proceed(i, IF rawPhotos[running[i].name].ok THEN "put_thumb" ELSE "failed", {})
    /\ UNCHANGED <<chatVars, photoVars>>

\* photo_processor step 4: PutObject to photos/thumbnails/
ProcessorPutThumb(i) ==
    /\ IsRunning(i, "photo_processor", "put_thumb")
    /\ LET img == rawPhotos[running[i].name]
           keys == photo_keys(running[i].name, running[i].photo_id)
       IN /\ objects' = Put(objects, keys.thumbnail_key,
                            [thumb_of |-> img.id, size |-> thumbnail(img.w, img.h, THUMB_MAX)])
          /\ Proceed(i, "put_item", {keys.thumbnail_key})
    /\ UNCHANGED <<chatVars, rawPhotos, pevents, table, uuids, plog, pbudget>>

\* photo_processor step 5: put_item
ProcessorPutItem(i) ==
    /\ IsRunning(i, "photo_processor", "put_item")
    /\ LET name == running[i].name
           img == rawPhotos[name]
           keys == photo_keys(name, running[i].photo_id)
           item == [photo_id |-> running[i].photo_id, filename |-> name,
                    original_key |-> keys.original_key,
                    thumbnail_key |-> keys.thumbnail_key,
                    source_key |-> RawKey(name),
                    width |-> img.w, height |-> img.h,
                    tags |-> derive_tags(img.w, img.h, img.flash, img.gps),
                    uploaded_at |-> now]
       IN table' = put_item(table, running[i].photo_id, item)
    /\ Proceed(i, "done", {})
    /\ UNCHANGED <<chatVars, rawPhotos, pevents, objects, uuids, plog, pbudget>>

\* a call of the AWS SDK raises and the invocation ends
SdkError(i) ==
    /\ i \in DOMAIN running
    /\ running[i].pc \in {"read", "copy", "put_thumb", "put_item"}
    /\ Proceed(i, "failed", {})
    /\ UNCHANGED <<chatVars, photoVars>>

InitIdle == running = <<>>

\* two events are delivered at the same time: for two files or twice for
\* one file.  The text files are chat exports or not, p.jpg is an image
\* and q.png cannot be decoded
InitConcurrent ==
    /\ now = 1
    /\ landing \in [NameSet -> {[content |-> c, lastModified |-> 1] : c \in Contents}]
    /\ events = [n \in NameSet |-> 0]
    /\ bronze = <<>>
    /\ vlog = None
    /\ copied = [n \in NameSet |-> {}]
    /\ silver = <<>>
    /\ catalog = None
    /\ job = "none"
    /\ hist = None
    /\ lastfail = None
    /\ budget = 0
    /\ rawPhotos = [n \in PhotoNames |->
                        IF n = "p.jpg"
                        THEN [id |-> 1, ok |-> TRUE, w |-> 4000, h |-> 3000, flash |-> 1,
                              gps |-> TRUE]
                        ELSE [id |-> 3, ok |-> FALSE, w |-> 0, h |-> 0, flash |-> NoFlash,
                              gps |-> FALSE]]
    /\ pevents = [n \in PhotoNames |-> 0]
    /\ objects = <<>>
    /\ table = <<>>
    /\ uuids = 0
    /\ plog = [n \in PhotoNames |-> [completed |-> 0, failed |-> 0, item_failed |-> FALSE,
                                       retried |-> FALSE,
                                       keys |-> {}]]
    /\ pbudget = 0
    /\ InitApi
    /\ InitUi
    /\ InitPages
    /\ arg = None
    /\ res = None
    /\ running \in [1..2 -> Invocations]

NextConcurrent ==
    \/ \E i \in 1..2 : BronzeRead(i) /\ UNCHANGED <<pureVars, apiVars, uiVars, pageVars>>
    \/ \E i \in 1..2 : BronzeValidate(i) /\ UNCHANGED <<pureVars, apiVars, uiVars, pageVars>>
    \/ \E i \in 1..2 : BronzeCopy(i) /\ UNCHANGED <<pureVars, apiVars, uiVars, pageVars>>
    \/ \E i \in 1..2 : ProcessorRead(i) /\ UNCHANGED <<pureVars, apiVars, uiVars, pageVars>>
    \/ \E i \in 1..2 : ProcessorCopy(i) /\ UNCHANGED <<pureVars, apiVars, uiVars, pageVars>>
    \/ \E i \in 1..2 : ProcessorDecode(i) /\ UNCHANGED <<pureVars, apiVars, uiVars, pageVars>>
    \/ \E i \in 1..2 : ProcessorPutThumb(i) /\ UNCHANGED <<pureVars, apiVars, uiVars, pageVars>>
    \/ \E i \in 1..2 : ProcessorPutItem(i) /\ UNCHANGED <<pureVars, apiVars, uiVars, pageVars>>
    \/ \E i \in 1..2 : SdkError(i) /\ UNCHANGED <<pureVars, apiVars, uiVars, pageVars>>

SpecConcurrent == InitConcurrent /\ [][NextConcurrent]_vars

----------------------------------------------------------------------------
(* The chat pipeline *)

InitChat ==
    /\ now = 1
    /\ landing = <<>>
    /\ events = [n \in NameSet |-> 0]
    /\ bronze = <<>>
    /\ vlog = None
    /\ copied = [n \in NameSet |-> {}]
    /\ silver = <<>>
    /\ catalog = None
    /\ job = "none"
    /\ hist = None
    /\ lastfail = None
    /\ budget = MaxOps

Init ==
    /\ InitChat
    /\ InitPhoto
    /\ InitApi
    /\ InitUi
    /\ InitIdle
    /\ InitPages
    /\ arg = None
    /\ res = None

Next ==
    \/ \E n \in NameSet, c \in Contents : Upload(n, c) /\ UNCHANGED <<pureVars, photoVars, apiVars, uiVars, concVars, pageVars>>
    \/ \E n \in NameSet : ValidatorInvoke(n) /\ UNCHANGED <<pureVars, photoVars, apiVars, uiVars, concVars, pageVars>>
    \/ \E n \in NameSet : ValidatorFail(n) /\ UNCHANGED <<pureVars, photoVars, apiVars, uiVars, concVars, pageVars>>
    \/ \E n \in NameSet : Redeliver(n) /\ UNCHANGED <<pureVars, photoVars, apiVars, uiVars, concVars, pageVars>>
    \/ Tick /\ UNCHANGED <<pureVars, photoVars, apiVars, uiVars, concVars, pageVars>>
    \/ JobNothing /\ UNCHANGED <<pureVars, photoVars, apiVars, uiVars, concVars, pageVars>>
    \/ JobRun /\ UNCHANGED <<pureVars, photoVars, apiVars, uiVars, concVars, pageVars>>
    \/ \E W \in SUBSET DatesOf(BuildFrame(bronze)) :
            \E p \in PartialWrites(BuildFrame(bronze), W) :
                JobFail(W, p) /\ UNCHANGED <<pureVars, photoVars, apiVars, uiVars, concVars, pageVars>>

Spec == Init /\ [][Next]_vars

NextPhoto ==
    \/ \E n \in PhotoNames, img \in Images : PhotoUpload(n, img) /\ UNCHANGED <<chatVars, pureVars, apiVars, uiVars, concVars, pageVars>>
    \/ \E n \in PhotoNames, stop \in StepRead..StepDone :
            PhotoInvoke(n, stop) /\ UNCHANGED <<chatVars, pureVars, apiVars, uiVars, concVars, pageVars>>
    \/ \E n \in PhotoNames : PhotoRedeliver(n) /\ UNCHANGED <<chatVars, pureVars, apiVars, uiVars, concVars, pageVars>>

SpecPhoto == Init /\ [][NextPhoto]_vars

NextApi ==
    \/ StartQuery /\ UNCHANGED <<chatVars, photoVars, pureVars, uiVars, concVars, pageVars>>
    \/ \E state \in EngineStates : Poll(state) /\ UNCHANGED <<chatVars, photoVars, pureVars, uiVars, concVars, pageVars>>
    \/ \E pages \in ResultPages : FetchResults(pages) /\ UNCHANGED <<chatVars, photoVars, pureVars, uiVars, concVars, pageVars>>

\* the handler runs to its end once it is invoked
SpecApi == Init /\ [][NextApi]_vars /\ WF_vars(NextApi)

NextUi ==
    \/ \E to \in Locations : OpenUrl(to) /\ UNCHANGED <<chatVars, photoVars, pureVars, apiVars, concVars, pageVars>>
    \/ RedirectUnknown /\ UNCHANGED <<chatVars, photoVars, pureVars, apiVars, concVars, pageVars>>
    \/ OpenLibrary /\ UNCHANGED <<chatVars, photoVars, pureVars, apiVars, concVars, pageVars>>
    \/ \E key \in SECTIONS : OpenCard(key) /\ UNCHANGED <<chatVars, photoVars, pureVars, apiVars, concVars, pageVars>>
    \/ Back /\ UNCHANGED <<chatVars, photoVars, pureVars, apiVars, concVars, pageVars>>

SpecUi == Init /\ [][NextUi]_vars

NextPages ==
    \/ PhotosMount /\ UNCHANGED <<chatVars, photoVars, pureVars, apiVars, uiVars, concVars>>
    \/ PhotosRefresh /\ UNCHANGED <<chatVars, photoVars, pureVars, apiVars, uiVars, concVars>>
    \/ \E v \in SortOptions : ChangeSort(v) /\ UNCHANGED <<chatVars, photoVars, pureVars, apiVars, uiVars, concVars>>
    \/ \E t \in TagOptions : ChangeTag(t) /\ UNCHANGED <<chatVars, photoVars, pureVars, apiVars, uiVars, concVars>>
    \/ \E k \in 1..MaxFetches : \E body \in {ErrorObject} \cup {ArrayFor(photo_params(v, t)) : v \in SortOptions, t \in TagOptions} :
            PhotosResponse(k, body) /\ UNCHANGED <<chatVars, photoVars, pureVars, apiVars, uiVars, concVars>>
    \/ \E k \in 1..MaxFetches : PhotosError(k) /\ UNCHANGED <<chatVars, photoVars, pureVars, apiVars, uiVars, concVars>>
    \/ FetchMessages /\ UNCHANGED <<chatVars, photoVars, pureVars, apiVars, uiVars, concVars>>
    \/ \E k \in 1..MaxFetches : \E body \in {ErrorObject, ArrayFor([limit |-> 500])} :
            MessagesResponse(k, body) /\ UNCHANGED <<chatVars, photoVars, pureVars, apiVars, uiVars, concVars>>
    \/ \E k \in 1..MaxFetches : MessagesError(k) /\ UNCHANGED <<chatVars, photoVars, pureVars, apiVars, uiVars, concVars>>

SpecPages == Init /\ [][NextPages]_vars

----------------------------------------------------------------------------
(* The pure helpers, applied to inputs drawn from bounded sets *)

RECURSIVE SeqsUpTo(_, _)
\* the sequences over S of length at most n
SeqsUpTo(S, n) ==
    IF n = 0 THEN {<<>>}
    ELSE LET shorter == SeqsUpTo(S, n - 1)
         IN shorter \cup {Append(q, x) : q \in {r \in shorter : Len(r) = n - 1}, x \in S}

RECURSIVE Repeat(_, _)
Repeat(x, n) == IF n = 0 THEN <<>> ELSE <<x>> \o Repeat(x, n - 1)

Sys1 == SystemLine(1, 15, 24, 2, "/")
ValidatorLines == {D1, Sys1, Garbage, EmptyLine}

\* a free first line, up to MaxPad filler lines, maybe a blank line, and a
\* free tail
ValidatorInputs ==
    {h \o Repeat(Garbage, k) \o Repeat(EmptyLine, e) \o t :
        h \in SeqsUpTo(ValidatorLines, 1), k \in 0..MaxPad, e \in 0..1,
        t \in SeqsUpTo(ValidatorLines, MaxTail)}

SpecialDims == {80, 100, 225, 299, 300, 301, 500, 599, 600, 601, 1080, 1920, 3000, 4000}
Dims == 1..MaxDim \cup SpecialDims

InitValidator ==
    /\ InitChat
    /\ InitPhoto
    /\ InitApi
    /\ InitUi
    /\ InitIdle
    /\ InitPages
    /\ arg \in {[content |-> c] : c \in ValidatorInputs}
    /\ res = None

Validate ==
    /\ res = None
    /\ res' = [accepted |-> is_whatsapp_export(arg.content)]
    /\ UNCHANGED <<arg, chatVars, photoVars, apiVars, uiVars, concVars, pageVars>>

SpecValidator == InitValidator /\ [][Validate]_vars

InitThumb ==
    /\ InitChat
    /\ InitPhoto
    /\ InitApi
    /\ InitUi
    /\ InitIdle
    /\ InitPages
    /\ arg \in {[w |-> w, h |-> h] : w \in Dims, h \in Dims}
    /\ res = None

MakeThumbnail ==
    /\ res = None
    /\ res' = [size |-> thumbnail(arg.w, arg.h, THUMB_MAX)]
    /\ UNCHANGED <<arg, chatVars, photoVars, apiVars, uiVars, concVars, pageVars>>

SpecThumb == InitThumb /\ [][MakeThumbnail]_vars

InitTags ==
    /\ InitChat
    /\ InitPhoto
    /\ InitApi
    /\ InitUi
    /\ InitIdle
    /\ InitPages
    /\ arg \in {[w |-> w, h |-> h, flash |-> f, gps |-> g] :
                    w \in Dims, h \in Dims, f \in {NoFlash} \cup 0..MaxFlash, g \in BOOLEAN}
    /\ res = None

DeriveTags ==
    /\ res = None
    /\ res' = [tags |-> derive_tags(arg.w, arg.h, arg.flash, arg.gps)]
    /\ UNCHANGED <<arg, chatVars, photoVars, apiVars, uiVars, concVars, pageVars>>

SpecTags == InitTags /\ [][DeriveTags]_vars

\* the year field of a date string and its number of digits: %y takes two
\* digits, %Y four; the timestamp grammar also lets three through
DateYears == {<<0, 2>>, <<23, 2>>, <<24, 2>>, <<68, 2>>, <<69, 2>>, <<99, 2>>, <<202, 3>>,
              <<0, 4>>, <<1900, 4>>, <<2000, 4>>, <<2023, 4>>, <<2024, 4>>}

InitDate ==
    /\ InitChat
    /\ InitPhoto
    /\ InitApi
    /\ InitUi
    /\ InitIdle
    /\ InitPages
    /\ arg \in {[a |-> a, b |-> b, y |-> yy[1], ylen |-> yy[2]] :
                    a \in 0..MaxDateField, b \in 0..MaxDateField, yy \in DateYears}
    /\ res = None

ParseDate ==
    /\ res = None
    /\ res' = [date |-> parse_date_iso(arg.a, arg.b, arg.y, arg.ylen)]
    /\ UNCHANGED <<arg, chatVars, photoVars, apiVars, uiVars, concVars, pageVars>>

SpecDate == InitDate /\ [][ParseDate]_vars

Values == SeqsUpTo(Chars, MaxValueLen)

InitSql ==
    /\ InitChat
    /\ InitPhoto
    /\ InitApi
    /\ InitUi
    /\ InitIdle
    /\ InitPages
    /\ arg \in {[sender |-> a, search |-> b, date |-> c] : a \in Values, b \in Values, c \in Values}
    /\ res = None

BuildQuery ==
    /\ res = None
    /\ res' = [sql |-> build_query(arg.sender, arg.search, arg.date)]
    /\ UNCHANGED <<arg, chatVars, photoVars, apiVars, uiVars, concVars, pageVars>>

SpecSql == InitSql /\ [][BuildQuery]_vars

\* items of PhotoMetadata: two upload times, so that ties occur
ItemTags == {{}, {"landscape"}, {"landscape", "gps"}}
TagFilters == {NoTag, "landscape", "gps", "flash"}

PhotoItem(id, t, tags) ==
    [photo_id |-> id, filename |-> IF id % 2 = 1 THEN "p.jpg" ELSE "q.png",
     uploaded_at |-> t, tags |-> tags]

\* the scan results: any number of items up to MaxItems, in any order of
\* upload time
Scans ==
    {[i \in 1..Len(q) |-> PhotoItem(i, q[i][1], q[i][2])] :
        q \in SeqsUpTo((1..2) \X ItemTags, MaxItems)}

\* the table holds the items of arg.scanned under their photo_id, and a
\* scan page holds up to arg.limit of them
InitList ==
    /\ InitChat
    /\ InitApi
    /\ InitUi
    /\ InitIdle
    /\ InitPages
    /\ arg \in {[scanned |-> sc, tag |-> t, limit |-> n] :
                    sc \in Scans, t \in TagFilters, n \in 1..MaxItems}
    /\ res = None
    /\ rawPhotos = <<>>
    /\ pevents = [n \in PhotoNames |-> 0]
    /\ objects = <<>>
    /\ table = arg.scanned
    /\ uuids = Len(arg.scanned)
    /\ plog = [n \in PhotoNames |-> [completed |-> 0, failed |-> 0, item_failed |-> FALSE,
                                       retried |-> FALSE,
                                       keys |-> {}]]
    /\ pbudget = 0

ListPhotos ==
    /\ res = None
    /\ res' = [photos |-> list_photos(scan_all(table, NoKey, arg.limit), arg.tag),
               calls |-> scan_calls(table, NoKey, arg.limit)]
    /\ UNCHANGED <<arg, chatVars, photoVars, apiVars, uiVars, concVars, pageVars>>

SpecList == InitList /\ [][ListPhotos]_vars

\* lines of a chat file: messages of the "/" and of the "." grammar, a
\* message whose date mixes "/" and "-", a system notice, a line without
\* timestamp and a blank line
DotLine == MsgLine(15, 1, 2024, 4, ".", "x")
MixedLine == MsgLine(1, 15, 24, 2, "/-", "m")
ChatLines == {D1, DotLine, MixedLine, Sys1, Garbage, EmptyLine}

ParseKey == BronzeKey(BaseYear, 1, "a.txt")

InitParse ==
    /\ InitChat
    /\ InitPhoto
    /\ InitApi
    /\ InitUi
    /\ InitIdle
    /\ InitPages
    /\ arg \in {[content |-> c] : c \in SeqsUpTo(ChatLines, MaxLines)}
    /\ res = None

ParseChat ==
    /\ res = None
    /\ res' = [rows |-> parse_chat(arg.content, ParseKey)]
    /\ UNCHANGED <<arg, chatVars, photoVars, apiVars, uiVars, concVars, pageVars>>

SpecParse == InitParse /\ [][ParseChat]_vars

\* aws_s3_bucket_notification.main: the two lambda_function blocks, the
\* suffix as pieces of a name; an absent filter_suffix is the empty suffix
Notifications ==
    [whatsapp_bronze |-> [filter_prefix |-> "raw-whatsapp-uploads", filter_suffix |-> <<Dot, "txt">>],
     photo_processor |-> [filter_prefix |-> "raw-photos", filter_suffix |-> <<>>]]

\* the name ends with the suffix, piece by piece and case-sensitively
EndsWith(name, suffix) ==
    /\ Len(name) >= Len(suffix)
    /\ SubSeq(name, Len(name) - Len(suffix) + 1, Len(name)) = suffix

\* the functions notified of an object created under the key
Notified(key) ==
    {f \in DOMAIN Notifications :
        /\ key.prefix = Notifications[f].filter_prefix
        /\ EndsWith(key.name, Notifications[f].filter_suffix)}

\* pieces of file names; no run of several pieces other than the dot spells
\* one of the routed extensions
NamePieces == {Dot, "a", "txt", "TXT", "zip", "Jpg", "jpeg", "png", "webp", "pdf"}

FileNamesToRoute == SeqsUpTo(NamePieces, MaxNameParts) \ {<<>>}

InitRoute ==
    /\ InitChat
    /\ InitPhoto
    /\ InitApi
    /\ InitUi
    /\ InitIdle
    /\ InitPages
    /\ arg \in {[name |-> n] : n \in FileNamesToRoute}
    /\ res = None

HandleUpload ==
    /\ res = None
    /\ res' = [key |-> storagePath(arg.name)]
    /\ UNCHANGED <<arg, chatVars, photoVars, apiVars, uiVars, concVars, pageVars>>

SpecRoute == InitRoute /\ [][HandleUpload]_vars

----------------------------------------------------------------------------
(* Properties of the chat pipeline *)

\* a step that is a complete, successful run of the Glue job
IsJobRunStep == JobRun

\* a step that is an invocation of whatsapp_bronze for the file n
IsValidatorStep(n) == events'[n] < events[n]

SilverIds(s) == UNION {{s[d][i].message_id : i \in 1..Len(s[d])} : d \in DOMAIN s}

\* C1: a second run of the Chat Transformer on the bronze set of the last
\* completed run (silver untouched in between) leaves the same date
\* partitions with the same rows in the same order, and the same set of
\* message_id values.
C1_IdempotentParse ==
    [][(IsJobRunStep /\ hist # None /\ bronze = hist.src /\ silver = hist.after)
        => (silver' = silver /\ SilverIds(silver') = SilverIds(silver))]_vars

C1_Witness ==
    /\ hist # None
    /\ hist.rerun.kind = "same"
    /\ DOMAIN silver # {}
    /\ job = "succeeded"

\* C2: no date partition holds two records for the same message (same line,
\* same text) of the same export (same file name).
C2_NoDuplicateMessages ==
    \A d \in DOMAIN silver : \A i, j \in 1..Len(silver[d]) :
        (/\ silver[d][i].source_file.name = silver[d][j].source_file.name
         /\ silver[d][i].message_id[2] = silver[d][j].message_id[2]
         /\ silver[d][i].text = silver[d][j].text) => i = j

\* the dates of the messages of a bronze object
DatesOfObject(store, k) == DatesOf(parse_chat(store[k], k))

\* C3: when one bronze object whose messages all fall on a date D was added
\* since the last completed run and the job is run again, every date
\* partition other than D has the same content after the run as before it.
C3_PartitionIsolation ==
    [][(/\ IsJobRunStep
        /\ RerunOf(hist, bronze, silver).kind = "added"
        /\ Cardinality(DatesOfObject(bronze, RerunOf(hist, bronze, silver).key)) = 1)
        => LET D == CHOOSE d \in DatesOfObject(bronze, RerunOf(hist, bronze, silver).key) : TRUE
           IN /\ DOMAIN silver' \ {D} = DOMAIN silver \ {D}
              /\ \A d \in DOMAIN silver \ {D} : silver'[d] = silver[d]]_vars

C3_Witness ==
    /\ hist # None
    /\ hist.rerun.kind = "added"
    /\ job = "succeeded"
    /\ silver = hist.after
    /\ \E d \in DOMAIN silver : d \notin DatesOfObject(hist.src, hist.rerun.key)

\* C5: however often the validator is invoked for one accepted landing
\* object, that object has exactly one bronze copy, always at the same key,
\* with the bytes of the landing object.
C5_OneBronzeCopy ==
    \A n \in DOMAIN landing :
        /\ Cardinality(copied[n]) <= 1
        /\ \A k \in copied[n] : k \in DOMAIN bronze /\ bronze[k] = landing[n].content

\* C6: an invocation that rejects its file writes, copies and deletes
\* nothing (landing zone and bronze layer are unchanged), returns status 200
\* and leaves no delivery attempt for the event.
C6_RejectIsSilent ==
    [][\A n \in NameSet :
        (IsValidatorStep(n) /\ vlog'.key = n /\ vlog'.decision = "reject")
        => (/\ landing' = landing
            /\ bronze' = bronze
            /\ silver' = silver
            /\ vlog'.status = 200
            /\ events'[n] = 0)]_vars

C6_Witness ==
    /\ vlog # None
    /\ vlog.decision = "reject"
    /\ vlog.status = 200
    /\ events[vlog.key] = 0
    /\ DOMAIN bronze # {}

----------------------------------------------------------------------------
(* Properties of the media processor *)

ItemsOf(n) == {id \in DOMAIN table : table[id].source_key = RawKey(n)}

\* C7: every invocation that completes its metadata write adds a record
\* under a photo_id no existing record has, so the table holds as many
\* records for a source key as invocations completed for it, and no step
\* overwrites or removes a record.
C7_FreshRecordPerInvocation ==
    /\ [](\A n \in PhotoNames : Cardinality(ItemsOf(n)) = plog[n].completed)
    /\ [][\A id \in DOMAIN table : id \in DOMAIN table' /\ table'[id] = table[id]]_vars

\* two records for one source key
C7_Witness ==
    \E n \in PhotoNames : plog[n].completed = 2 /\ Cardinality(ItemsOf(n)) = 2

\* C8: the invocations for one image, completed or failed part-way, write
\* at most one archived original and at most one thumbnail, both named after
\* the file and neither at the landing key; the object store holds nothing
\* else.
C8_StorageKeysStable ==
    /\ \A n \in PhotoNames :
        /\ \A k \in plog[n].keys :
            /\ k.prefix \in {"photos/originals", "photos/thumbnails"}
            /\ k.name = n
            /\ k # RawKey(n)
        /\ Cardinality({k \in plog[n].keys : k.prefix = "photos/originals"}) <= 1
        /\ Cardinality({k \in plog[n].keys : k.prefix = "photos/thumbnails"}) <= 1
    /\ DOMAIN objects = UNION {plog[n].keys : n \in PhotoNames}

\* an image processed to the end at least twice, and once more with a failure
C8_Witness ==
    \E n \in PhotoNames :
        /\ plog[n].completed >= 2
        /\ plog[n].failed >= 1
        /\ Cardinality(plog[n].keys) = 2
        /\ plog[n].keys \subseteq DOMAIN objects

----------------------------------------------------------------------------
(* Properties of the pure helpers *)

\* the number of non-empty lines among the first i lines
NonEmptyRank(content, i) == Cardinality({j \in 1..i : content[j].kind # "empty"})

\* the lines that start with a timestamp and are among the first 20
\* non-empty lines
CountedLines(content) ==
    {i \in 1..Len(content) : WHATSAPP_RE(content[i]) /\ NonEmptyRank(content, i) <= 20}

C9_TagDerivation ==
    res # None =>
        /\ Cardinality(res.tags \cap {"landscape", "portrait", "square"}) = 1
        /\ "landscape" \in res.tags <=> 100 * arg.w > 105 * arg.h
        /\ "portrait" \in res.tags <=> 100 * arg.h > 105 * arg.w
        /\ "square" \in res.tags <=> (100 * arg.w <= 105 * arg.h /\ 100 * arg.h <= 105 * arg.w)
        /\ "flash" \in res.tags <=> (arg.flash # NoFlash /\ arg.flash % 2 = 1)
        /\ "gps" \in res.tags <=> arg.gps
        /\ res.tags \subseteq {"landscape", "portrait", "square", "flash", "gps"}
        /\ (arg.w = 1920 /\ arg.h = 1080) => "landscape" \in res.tags
        /\ (arg.w = 1080 /\ arg.h = 1920) => "portrait" \in res.tags
        /\ (arg.w = 500 /\ arg.h = 500) => "square" \in res.tags

\* a nearly square image that is not exactly square, with flash and gps
C9_Witness ==
    /\ res # None
    /\ arg.w # arg.h
    /\ res.tags = {"square", "flash", "gps"}

\* C10: the thumbnail is at most 300 on its longest side and never larger
\* than the image in either direction; an image that fits 300 x 300 keeps
\* its size; the resized side is within one pixel of the exactly scaled
\* length; 4000 x 3000 gives 300 x 225.
C10_ThumbnailBound ==
    res # None =>
        LET tw == res.size[1]
            th == res.size[2]
            long == Max2(arg.w, arg.h)
        IN /\ Max2(tw, th) <= 300
           /\ tw >= 1 /\ th >= 1
           /\ tw <= arg.w /\ th <= arg.h
           /\ long <= 300 => (tw = arg.w /\ th = arg.h)
           /\ long > 300 =>
                /\ Max2(tw, th) = 300
                /\ Abs(tw * long - 300 * arg.w) < long
                /\ Abs(th * long - 300 * arg.h) < long
           /\ (arg.w = 4000 /\ arg.h = 3000) => (tw = 300 /\ th = 225)

\* a resized image whose short side is rounded up (1080 * 300 / 1920 = 168.75)
C10_Witness ==
    /\ res # None
    /\ arg.w = 1920 /\ arg.h = 1080
    /\ res.size = <<300, 169>>

----------------------------------------------------------------------------
(* Properties of the chat query path *)

TerminalStates == {"SUCCEEDED", "FAILED", "CANCELLED"}

\* C11: the polling loop makes at most MAX_POLLS (60) status checks, makes
\* no further check once a check returned SUCCEEDED, FAILED or CANCELLED,
\* fetches result rows only after a check returned SUCCEEDED, and the
\* handler always reaches its end.
C11_PollingTerminates ==
    /\ [](polls <= MAX_POLLS)
    /\ [][(polls' # polls) => (polls' = polls + 1 /\ qstate \notin TerminalStates)]_vars
    /\ [][(qrows' # qrows) => (qstate = "SUCCEEDED" /\ raised = None)]_vars
    /\ <>(qpc = "done")

\* a query that succeeded at a later check than the first, with rows fetched
C11_Witness ==
    /\ qpc = "done"
    /\ polls > 1
    /\ polls < MAX_POLLS
    /\ qstate = "SUCCEEDED"
    /\ qrows.fetched
    /\ Len(qrows.rows) > 0

\* C12: when the handler has ended, a FAILED or CANCELLED state has raised
\* the failure error, MAX_POLLS checks without a terminal state have raised
\* the timeout error, which differs from the failure error, neither case
\* has result rows, and SUCCEEDED has raised nothing and has rows, also at
\* check number MAX_POLLS.
C12_FailureAndTimeout ==
    qpc = "done" =>
        /\ qstate \in {"FAILED", "CANCELLED"} =>
                raised = RuntimeError(qstate) /\ ~qrows.fetched
        /\ (qstate \notin TerminalStates) =>
                polls = MAX_POLLS /\ raised = TimeoutError /\ ~qrows.fetched
        /\ qstate = "SUCCEEDED" => raised = None /\ qrows.fetched
        /\ raised # None => qrows = NoRows
        /\ TimeoutError.type # RuntimeError(qstate).type

\* SUCCEEDED at the last permitted check
C12_Witness ==
    /\ qpc = "done"
    /\ polls = MAX_POLLS
    /\ qstate = "SUCCEEDED"
    /\ raised = None
    /\ qrows.fetched

\* how the engine reads a string literal whose opening quote is before
\* position i: two quotes in a row are one quote of the content, a single
\* quote closes the literal
RECURSIVE ScanLiteral(_, _, _)
ScanLiteral(q, i, acc) ==
    IF i > Len(q) THEN [closed |-> FALSE, content |-> acc, next |-> i]
    ELSE IF q[i] = Quote
         THEN IF i + 1 <= Len(q) /\ q[i + 1] = Quote
              THEN ScanLiteral(q, i + 2, Append(acc, Quote))
              ELSE [closed |-> TRUE, content |-> acc, next |-> i + 1]
         ELSE ScanLiteral(q, i + 1, Append(acc, q[i]))

\* the SQL text as the engine reads it: string literals (with their content)
\* and the text between them
RECURSIVE Lex(_, _)
Lex(q, i) ==
    IF i > Len(q) THEN <<>>
    ELSE IF q[i] = Quote
         THEN LET r == ScanLiteral(q, i + 1, <<>>)
              IN <<[literal |-> TRUE, closed |-> r.closed, content |-> r.content]>>
                 \o Lex(q, r.next)
         ELSE <<[literal |-> FALSE, text |-> q[i]]>> \o Lex(q, i + 1)

Lit(content) == [literal |-> TRUE, closed |-> TRUE, content |-> content]
Txt(text) == [literal |-> FALSE, text |-> text]

\* what the handler means to send: its own SQL text and one literal per
\* parameter, holding the caller's value
Intended(sender, search, date) ==
    LET cs == (IF sender # <<>>
               THEN << <<Txt("LOWER(sender) LIKE "), Lit(<<"%">> \o lower(sender) \o <<"%">>)>> >>
               ELSE <<>>)
              \o (IF search # <<>>
                  THEN << <<Txt("LOWER(message) LIKE "), Lit(<<"%">> \o lower(search) \o <<"%">>)>> >>
                  ELSE <<>>)
              \o (IF date # <<>> THEN << <<Txt("date = "), Lit(date)>> >> ELSE <<>>)
        join[k \in 1..(Len(cs) + 1)] ==
            IF k > Len(cs) THEN <<>>
            ELSE IF k = Len(cs) THEN cs[k]
            ELSE cs[k] \o <<Txt(" AND ")>> \o join[k + 1]
    IN <<Txt("SELECT * FROM whatsapp_messages")>>
       \o (IF cs = <<>> THEN <<>> ELSE <<Txt(" WHERE ")>> \o join[1])

\* C13: in the query text built from any sender, search and date value, the
\* engine reads exactly the handler's own SQL and one closed string literal
\* per parameter, whose content is the caller's value: every quote of a
\* value is doubled and only the appended quote closes a literal.
C13_QuotesEscaped ==
    res # None => Lex(res.sql, 1) = Intended(arg.sender, arg.search, arg.date)

\* a search value with two quotes in a row and a sender that ends in a quote
C13_Witness ==
    /\ res # None
    /\ arg.search = <<Quote, Quote>>
    /\ arg.sender = <<"A", Quote>>
    /\ arg.date = <<Quote>>

----------------------------------------------------------------------------
(* Properties of the photo listing *)

IdsOf(q) == [i \in 1..Len(q) |-> q[i].photo_id]

\* the scanned items that a tag filter keeps
Matching(scanned, tag) ==
    {i \in 1..Len(scanned) : tag = NoTag \/ tag \in scanned[i].tags}

----------------------------------------------------------------------------
(* Properties of failed and empty runs of the Glue job *)

\* a step that is a failed run of the Glue job
IsJobFailStep ==
    /\ job' = "failed"
    /\ budget' < budget
    /\ UNCHANGED <<now, landing, events, bronze>>

\* silver after one run without failure that starts from the silver layer s
\* and parses the frame df
FailureFree(s, df) ==
    [d \in DOMAIN s \cup DatesOf(df) |->
        IF d \in DatesOf(df) THEN SelectSeq(df, LAMBDA r : r.date = d) ELSE s[d]]

\* C15: a failed run changes no partition other than those it wrote or was
\* writing; and a successful run that follows a failed run on the same
\* bronze set leaves silver and the catalog as one run without failure,
\* started before the failed run, would have left them.
C15_RecoveryAfterFailure ==
    /\ [][IsJobFailStep =>
            \A d \in (DOMAIN silver \cup DOMAIN silver') \ lastfail'.touched :
                d \in DOMAIN silver /\ d \in DOMAIN silver' /\ silver'[d] = silver[d]]_vars
    /\ [][(IsJobRunStep /\ lastfail # None /\ bronze = lastfail.src /\ silver = lastfail.after)
            => /\ silver' = FailureFree(lastfail.before, BuildFrame(bronze))
               /\ catalog'.partitions = DOMAIN FailureFree(lastfail.before, BuildFrame(bronze))]_vars

\* a successful run after a run that failed with one partition written and
\* another one cut short
C15_Witness ==
    /\ job = "succeeded"
    /\ hist # None
    /\ hist.recovers # None
    /\ hist.recovers.src = hist.src
    /\ silver = hist.after
    /\ \E d \in hist.recovers.touched :
            /\ d \notin DOMAIN hist.recovers.before
            /\ d \in DOMAIN hist.recovers.after
            /\ hist.recovers.after[d] = silver[d]
    /\ \E d \in hist.recovers.touched :
            /\ d \in DOMAIN hist.recovers.after
            /\ hist.recovers.after[d] # silver[d]

\* C16: while the bronze layer holds no chat artifact, a run of the job can
\* only end as "nothing to process", and no step creates, replaces or
\* removes a partition or changes the catalog entry.
C16_NothingToProcess ==
    /\ [][(DOMAIN bronze = {} /\ job' # job) => job' = "nothing to process"]_vars
    /\ [][DOMAIN bronze = {} => (silver' = silver /\ catalog' = catalog)]_vars
    /\ [](job = "nothing to process" => (DOMAIN silver = {} /\ catalog = None))

\* the job has run while the only upload so far was rejected
C16_Witness ==
    /\ job = "nothing to process"
    /\ DOMAIN bronze = {}
    /\ vlog # None
    /\ vlog.decision = "reject"
    /\ DOMAIN silver = {}
    /\ catalog = None

----------------------------------------------------------------------------
(* Properties of parse_chat *)

\* the grammars of DATE_PATTERNS that a line matches, read off the line
GrammarsOf(line) ==
    IF line.kind # "msg" THEN {}
    ELSE (IF line.sep = "/" THEN {1} ELSE {}) \cup (IF line.sep \in {"-", "."} THEN {2} ELSE {})

\* zero-based indexes of the lines that match at least one grammar
MatchingLines(content) == {i \in 0..(Len(content) - 1) : GrammarsOf(content[i + 1]) # {}}

\* C17: parse_chat gives exactly one record for every line that matches at
\* least one grammar and none for the other lines; the records are in line
\* order, carry the text of their line and have pairwise distinct
\* message_id values; a matching line is parsed by the first grammar, in list
\* order, that it matches.
C17_OneRecordPerMatchingLine ==
    res # None =>
        LET rows == res.rows
            c == arg.content
        IN /\ Len(rows) = Cardinality(MatchingLines(c))
           /\ {rows[i].message_id[2] : i \in 1..Len(rows)} = MatchingLines(c)
           /\ \A i, j \in 1..Len(rows) : i < j => rows[i].message_id[2] < rows[j].message_id[2]
           /\ \A i, j \in 1..Len(rows) : i # j => rows[i].message_id # rows[j].message_id
           /\ \A i \in 1..Len(rows) : rows[i].text = c[rows[i].message_id[2] + 1].text
           /\ \A i \in 1..Len(c) :
                GrammarsOf(c[i]) # {} =>
                    /\ first_match(c[i]) \in GrammarsOf(c[i])
                    /\ \A k \in GrammarsOf(c[i]) : first_match(c[i]) <= k

\* three valid lines and two lines that are no messages give three records
C17_Witness ==
    /\ res # None
    /\ arg.content = <<D1, Garbage, DotLine, Sys1, D1>>
    /\ Len(res.rows) = 3

----------------------------------------------------------------------------
(* Properties of the upload handler *)

\* the lower-cased text after the last dot of a name; none without a dot
TextAfterLastDot(name) ==
    IF \A i \in 1..Len(name) : name[i] # Dot THEN <<"(none)">>
    ELSE LET d == CHOOSE i \in 1..Len(name) :
                    name[i] = Dot /\ \A j \in (i + 1)..Len(name) : name[j] # Dot
         IN [i \in 1..(Len(name) - d) |->
                IF name[d + i] = "TXT" THEN "txt"
                ELSE IF name[d + i] = "Jpg" THEN "jpg" ELSE name[d + i]]

\* C18: the key of an upload is <prefix>/<name>, where the prefix follows
\* from the lower-cased text after the last dot of the name: uploads-landing
\* for zip, raw-whatsapp-uploads for txt, raw-photos for jpg, jpeg, png and
\* webp, misc for every other name.
C18_UploadRouting ==
    res # None =>
        /\ res.key.name = arg.name
        /\ res.key.prefix =
            (LET ext == TextAfterLastDot(arg.name)
             IN IF ext = <<"zip">> THEN "uploads-landing"
                ELSE IF ext = <<"txt">> THEN "raw-whatsapp-uploads"
                ELSE IF ext \in {<<"jpg">>, <<"jpeg">>, <<"png">>, <<"webp">>} THEN "raw-photos"
                ELSE "misc")

----------------------------------------------------------------------------
(* Properties of the router *)

\* a press of a back button: the step that adds an entry led to by "back"
BackPressed ==
    /\ Len(history') = Len(history) + 1
    /\ history'[Len(history')].via = "back"

\* the number of back presses after which the home page shows, from page
BackPressesToHome(page) ==
    IF page = HOME THEN 0
    ELSE IF back_target(page) = HOME THEN 1
    ELSE IF back_target(back_target(page)) = HOME THEN 2
    ELSE 3

\* C19: a location other than the five routes is replaced by /library and
\* by nothing else; the back button of a library sub-page leads to /library
\* and the back button of /library leads to /; so a page that is shown is
\* at most two back presses away from the home page.
C19_RoutesAndBack ==
    /\ [][location \notin RoutePaths =>
            \/ history'[Len(history')].via = "url"
            \/ /\ Len(history') = Len(history)
               /\ history'[Len(history')].path = LIBRARY]_vars
    /\ [][BackPressed =>
            /\ location \in SubPages => history'[Len(history')].path = LIBRARY
            /\ location = LIBRARY => history'[Len(history')].path = HOME]_vars
    /\ [](location \in RoutePaths => BackPressesToHome(location) <= 2)
    /\ [](\A i \in 1..(Len(history) - 1) : history[i].path \in RoutePaths)

\* an unknown location was redirected, a sub-page was opened from the
\* library, and two back presses led from it to the home page
C19_Witness ==
    /\ Len(history) = 4
    /\ history[1] = [path |-> LIBRARY, via |-> "redirect"]
    /\ history[2].path \in SubPages
    /\ history[3] = [path |-> LIBRARY, via |-> "back"]
    /\ history[4] = [path |-> HOME, via |-> "back"]

----------------------------------------------------------------------------
(* Properties of the structured output as a whole *)

\* the rows of a frame, as a set
RowsOf(df) == {df[i] : i \in 1..Len(df)}

\* C20: after every successful run of the job, every date partition of the
\* output is a date of a message parsed from the current bronze objects,
\* and every record in it is parsed from them; also when a bronze key was
\* overwritten with other content between two runs.
C20_OutputIsParseOfBronze ==
    [][IsJobRunStep =>
        LET df == BuildFrame(bronze')
        IN \A d \in DOMAIN silver' :
              /\ d \in DatesOf(df)
              /\ \A i \in 1..Len(silver'[d]) : silver'[d][i] \in RowsOf(df)]_vars

----------------------------------------------------------------------------
(* Properties of retries of the media processor *)

\* the records of the table t for the image raw-photos/<n>
ItemsIn(t, n) == {id \in DOMAIN t : t[id].source_key = RawKey(n)}

\* a step in which an invocation for n runs to its end, the invocation
\* before it having written both objects and failed at the metadata write
IsRetryAfterPutItemFailure(n) ==
    /\ plog[n].item_failed
    /\ plog'[n].completed = plog[n].completed + 1

----------------------------------------------------------------------------
(* Properties of the result pagination *)

RECURSIVE TotalRows(_, _)
\* the number of rows on the pages from page i on
TotalRows(pages, i) == IF i > Len(pages) THEN 0 ELSE Len(pages[i]) + TotalRows(pages, i + 1)

\* C22: the rows returned for a succeeded query are the rows of all pages
\* in page order without the first row of the first page: one row fewer
\* than the pages hold, every row of a later page included.
C22_HeaderStrippedOnce ==
    qrows.fetched =>
        /\ Len(qrows.rows) = TotalRows(qrows.pages, 1) - 1
        /\ <<Header>> \o qrows.rows = Flatten(qrows.pages, 1)
        /\ Header \notin {qrows.rows[i] : i \in 1..Len(qrows.rows)}

\* three pages: a first page with the header alone, then two pages of data
C22_Witness ==
    /\ qrows.fetched
    /\ Len(qrows.pages) = 3
    /\ qrows.pages[1] = <<Header>>
    /\ Len(qrows.pages[2]) = 2
    /\ Len(qrows.pages[3]) = 1
    /\ Len(qrows.rows) = 3

----------------------------------------------------------------------------
(* Properties of the table scan of the photo listing *)

\* C23: whatever the size of a scan page, the listing calls scan() until a
\* page carries no LastEvaluatedKey, every record of the table that passes
\* the tag filter is in the response exactly once and nothing else is, and
\* the listing changes neither the table nor the object store.
C23_WholeTableListedOnce ==
    /\ [](res # None =>
            /\ res.calls = (Len(table) \div arg.limit) + 1
            /\ \A id \in DOMAIN table :
                Cardinality({i \in 1..Len(res.photos) : res.photos[i].photo_id = id})
                    = IF arg.tag = NoTag \/ arg.tag \in table[id].tags THEN 1 ELSE 0
            /\ \A i \in 1..Len(res.photos) : res.photos[i].photo_id \in DOMAIN table)
    /\ [][table' = table /\ objects' = objects /\ rawPhotos' = rawPhotos]_vars

\* three records scanned one per page: four scan calls, the last page
\* empty, two records with the tag
C23_Witness ==
    /\ res # None
    /\ arg.limit = 1
    /\ Len(table) = 3
    /\ res.calls = 4
    /\ arg.tag = "gps"
    /\ Len(res.photos) = 2

----------------------------------------------------------------------------
(* Properties of parse_date_iso *)

\* the year a year field stands for; 0 when it has neither 2 nor 4 digits
YearRead(y, ylen) == IF ylen = 2 THEN Year2(y) ELSE IF ylen = 4 THEN y ELSE 0

\* the date string is a date of the calendar read month-first / day-first
MonthFirstValid(d) ==
    /\ d.ylen \in {2, 4}
    /\ YearRead(d.y, d.ylen) >= 1
    /\ d.a \in 1..12
    /\ d.b \in 1..DaysInMonth(YearRead(d.y, d.ylen), d.a)

DayFirstValid(d) ==
    /\ d.ylen \in {2, 4}
    /\ YearRead(d.y, d.ylen) >= 1
    /\ d.b \in 1..12
    /\ d.a \in 1..DaysInMonth(YearRead(d.y, d.ylen), d.b)

\* C24: a date string that is a date read month-first is normalised as
\* month/day/year (also when it is one read day-first); otherwise, when it
\* is a date read day-first (so always when its first field exceeds 12 and
\* it is normalised at all), as day/month/year; a string that is a date
\* under neither reading is returned as it was.
C24_DateNormalisation ==
    res # None =>
        LET Y == YearRead(arg.y, arg.ylen)
        IN /\ MonthFirstValid(arg) => res.date = [iso |-> TRUE, Y |-> Y, M |-> arg.a, D |-> arg.b]
           /\ (~MonthFirstValid(arg) /\ DayFirstValid(arg))
                => res.date = [iso |-> TRUE, Y |-> Y, M |-> arg.b, D |-> arg.a]
           /\ (arg.a > 12 /\ res.date.iso) => (res.date.D = arg.a /\ res.date.M = arg.b)
           /\ (~MonthFirstValid(arg) /\ ~DayFirstValid(arg))
                => res.date = [iso |-> FALSE, a |-> arg.a, b |-> arg.b, y |-> arg.y,
                               ylen |-> arg.ylen]
           /\ res.date.iso => /\ res.date.M \in 1..12
                              /\ res.date.D \in 1..DaysInMonth(res.date.Y, res.date.M)

\* 3/4/24, a date under both readings, is read as the 4th of March 2024
C24_Witness ==
    /\ res # None
    /\ arg = [a |-> 3, b |-> 4, y |-> 24, ylen |-> 2]
    /\ res.date = [iso |-> TRUE, Y |-> 2024, M |-> 3, D |-> 4]

----------------------------------------------------------------------------
(* Properties of invocations that run at the same time *)

\* the storage keys whose object differs between two states of a store
Changed(old, new) ==
    {k \in DOMAIN new : k \notin DOMAIN old \/ new[k] # old[k]}
        \cup {k \in DOMAIN old : k \notin DOMAIN new}

\* C25: two invocations for files with different names have written
\* disjoint sets of storage keys and different metadata records, at every
\* point of every interleaving; and a step of one invocation changes no
\* object under a key the other one has written.
C25_DisjointWrites ==
    /\ [](\A i, j \in DOMAIN running :
            (i # j /\ running[i].name # running[j].name) =>
                /\ running[i].writes \cap running[j].writes = {}
                /\ running[i].photo_id = 0 \/ running[i].photo_id # running[j].photo_id)
    /\ [][\A i, j \in DOMAIN running :
            (i # j /\ running'[i] # running[i] /\ running[i].name # running[j].name) =>
                /\ Changed(bronze, bronze') \cup Changed(objects, objects')
                        \subseteq running'[i].writes
                /\ (Changed(bronze, bronze') \cup Changed(objects, objects'))
                        \cap running[j].writes = {}
                /\ \A id \in DOMAIN table : id \in DOMAIN table' /\ table'[id] = table[id]]_vars

\* the invocations for p.jpg and a.txt both ran to the end, a step of one
\* between the steps of the other: three objects and one record
C25_Witness ==
    /\ DOMAIN running = {1, 2}
    /\ running[1].name = "p.jpg" /\ running[1].pc = "done"
    /\ running[2].name = "a.txt" /\ running[2].pc = "done"
    /\ Cardinality(running[1].writes) = 2
    /\ Cardinality(running[2].writes) = 1
    /\ running[1].writes \subseteq DOMAIN objects
    /\ running[2].writes \subseteq DOMAIN bronze
    /\ Cardinality(DOMAIN table) = 1

----------------------------------------------------------------------------
(* Properties of PhotosPage and WhatsAppPage *)

\* the request issued by the step, if the step issued one on PhotosPage
NewRequest == photosPage'.requests[Len(photosPage'.requests)]

IssuesRequest ==
    /\ photosPage'.issued = photosPage.issued + 1
    /\ Len(photosPage'.requests) = Len(photosPage.requests) + 1
    /\ NewRequest.id = photosPage'.issued

C27_LatestResponseShown ==
    (/\ photosPage.requests = <<>>
     /\ photosPage.issued > 0
     /\ photosPage.handled = photosPage.issued
     /\ photosPage.photos.isArray)
        => photosPage.photos
                = ArrayFor(photo_params(photosPage.sortBy, photosPage.tagFilter))

\* C28: on each page the loading flag is true exactly while a fetch of the
\* page is in flight.
C28_LoadingWhileInFlight ==
    /\ photosPage.loading = (photosPage.requests # <<>>)
    /\ whatsAppPage.loading = (whatsAppPage.requests # <<>>)

\* C30: the list state of each page is an array.
C30_ListStateIsArray ==
    /\ photosPage.photos.isArray
    /\ whatsAppPage.messages.isArray

----------------------------------------------------------------------------
(* Properties of the upload handler and the bucket notification *)

\* C29: a file the upload handler stores under raw-whatsapp-uploads/ is
\* notified to whatsapp_bronze and a file it stores under raw-photos/ is
\* notified to photo_processor.
C29_RoutedUploadTriggersProcessor ==
    res # None =>
        /\ res.key.prefix = "raw-whatsapp-uploads" => "whatsapp_bronze" \in Notified(res.key)
        /\ res.key.prefix = "raw-photos" => "photo_processor" \in Notified(res.key)

====
